---------------------------- MODULE Spec2Model ----------------------------
(***************************************************************************)
(* PesaDB: typed table storage (Table.ts), the B-tree range index         *)
(* (BTreeIndex.ts), the table registry (Database.ts) and the SQL          *)
(* statement processor with its hash join (Parser.ts).                    *)
(*                                                                         *)
(* JavaScript objects are modelled with their identity: a row is a        *)
(* reference (an index into the table's heap of row objects), and a row   *)
(* list of the B-tree is a reference into the tree's heap of lists, so    *)
(* that two slots holding the same array are told apart from two slots    *)
(* holding equal arrays.                                                   *)
(***************************************************************************)
EXTENDS Integers, Sequences, FiniteSets, TLC

(***************************************************************************)
(* Bounds of the model.                                                    *)
(***************************************************************************)
\* Row objects a table ever receives by a successful insert.
MaxInserts == 2
\* Number values 1..MaxNum used as column values and query bounds.
MaxNum == 2
\* Rows per table in the join specification.
MaxJoinRows == 2
\* Row objects the table of the row-order specification receives.
MaxOrderRows == 3
\* Texts "s1".."sMaxStr" used as identifiers.
MaxStr == 2

\* The ISO 8601 date texts a request can carry.
MaxIso == 2
\* Texts "s1".."sMaxKey" used as join keys.
MaxKey == 2
\* API key ids 1..MaxKeyId the key store draws from.
MaxKeyId == 2
\* API key tokens 1..MaxToken the key store draws from; a request may also
\* carry the token MaxToken + 1, which the store never issues.
MaxToken == 2
\* Requests the rate limiter lets through in one window (RATE_LIMIT_MAX).
RateLimitMax == 1
\* The order of the range index driven on its own.
TreeOrder == 2
\* Key values 1..MaxTreeKey inserted into that index.
MaxTreeKey == 2
\* Calls of insert and calls of delete made on that index.
MaxTreeInserts == 9
MaxTreeDeletes == 1

(***************************************************************************)
(* Values: the closed variant of JavaScript values a row can hold.        *)
(* Strings are the non-numeric texts "s1", "s2", ... (Number(s) is NaN),  *)
(* ordered by their index.                                                 *)
(***************************************************************************)
Num(n) == [t |-> "number", v |-> n]
Str(n) == [t |-> "string", v |-> n]
Bool(b) == [t |-> "boolean", v |-> IF b THEN 1 ELSE 0]
Undef == [t |-> "undefined", v |-> 0]
Null == [t |-> "object", v |-> 0]

\* typeof x
TypeOf(x) == x.t

\* val === undefined || val === null
IsNullish(x) == x.t = "undefined" \/ x.t = "object"

\* a === b (strict equality of primitives)
StrictEq(a, b) == a = b

\* Whether Number(x) is a number (not NaN): strings of the model are non-numeric.
HasNumber(x) == x.t \in {"number", "boolean", "object"}

\* a < b as JavaScript evaluates it: two strings compare as texts, anything
\* else is converted to a number and a NaN operand makes the comparison false.
JsLT(a, b) ==
    IF a.t = "string" /\ b.t = "string" THEN a.v < b.v
    ELSE HasNumber(a) /\ HasNumber(b) /\ a.v < b.v

JsGT(a, b) == JsLT(b, a)

JsLE(a, b) ==
    IF a.t = "string" /\ b.t = "string" THEN a.v <= b.v
    ELSE HasNumber(a) /\ HasNumber(b) /\ a.v <= b.v

JsGE(a, b) == JsLE(b, a)

(***************************************************************************)
(* Sequence helpers (Array.prototype).                                     *)
(***************************************************************************)
Min2(a, b) == IF a <= b THEN a ELSE b

\* arr.indexOf(x): the first position of x (1-based), 0 when absent.
IndexOf(s, x) ==
    IF \E i \in 1..Len(s) : s[i] = x
    THEN CHOOSE i \in 1..Len(s) : s[i] = x /\ \A j \in 1..(i - 1) : s[j] # x
    ELSE 0

\* arr.splice(i, 1) for a 1-based position i.
RemoveAt(s, i) == SubSeq(s, 1, i - 1) \o SubSeq(s, i + 1, Len(s))

\* arr.splice(i, 0, x): x becomes the element at 1-based position i.
InsertAt(s, i, x) == SubSeq(s, 1, i - 1) \o <<x>> \o SubSeq(s, i, Len(s))

\* arr.filter(x => P(x)) kept in order.
RECURSIVE FilterSeq(_, _)
FilterSeq(s, keep) ==
    IF s = <<>> THEN <<>>
    ELSE (IF Head(s) \in keep THEN <<Head(s)>> ELSE <<>>) \o FilterSeq(Tail(s), keep)

SeqToSet(s) == {s[i] : i \in 1..Len(s)}

\* Number of positions of s holding x.
Count(s, x) == Cardinality({i \in 1..Len(s) : s[i] = x})

(***************************************************************************)
(* BTreeIndex.  A node is [keys, values, children, isLeaf]; values[i] is  *)
(* a reference into the tree's heap `lists` of row arrays.                 *)
(***************************************************************************)
\* BTreeIndex constructor: order = 5
Order == 5

\* new BTreeNode(isLeaf)
BTreeNode(isLeaf) == [keys |-> <<>>, values |-> <<>>, children |-> <<>>, isLeaf |-> isLeaf]

\* new BTreeIndex(columnName, order)
BTreeIndexOf(order) == [root |-> BTreeNode(TRUE), lists |-> <<>>, order |-> order]

\* new BTreeIndex(columnName), of the default order
BTreeIndex == BTreeIndexOf(Order)

\* A test that takes a node for full one key too late.
IsFull_Late(node, order) == Len(node.keys) >= 2 * order

\* A node holds 2*order-1 keys or more.
IsFull(node, order) == Len(node.keys) >= 2 * order - 1

\* A split whose new right sibling is always created as a leaf.
splitChild_NewLeaf(parent, index, order) ==
    LET fullChild == parent.children[index]
        n == Len(fullChild.keys)
        \* keys.splice(midIndex + 1) leaves the first `order` keys, pop takes the last of them
        kept == Min2(n, order)
        medianKey == fullChild.keys[kept]
        medianValue == fullChild.values[kept]
        nc == Len(fullChild.children)
        newChild == [keys |-> SubSeq(fullChild.keys, order + 1, n),
                     values |-> SubSeq(fullChild.values, order + 1, n),
                     children |-> IF fullChild.isLeaf THEN <<>>
                                  ELSE SubSeq(fullChild.children, order + 1, nc),
                     isLeaf |-> TRUE]
        left == [keys |-> SubSeq(fullChild.keys, 1, kept - 1),
                 values |-> SubSeq(fullChild.values, 1, kept - 1),
                 children |-> IF fullChild.isLeaf THEN fullChild.children
                              ELSE SubSeq(fullChild.children, 1, Min2(nc, order)),
                 isLeaf |-> fullChild.isLeaf]
    IN [keys |-> InsertAt(parent.keys, index, medianKey),
        values |-> InsertAt(parent.values, index, medianValue),
        children |-> InsertAt([parent.children EXCEPT ![index] = left], index + 1, newChild),
        isLeaf |-> parent.isLeaf]

\* splitChild(parent, index), index 1-based, in a tree of this order
splitChild(parent, index, order) ==
    LET fullChild == parent.children[index]
        n == Len(fullChild.keys)
        \* keys.splice(midIndex + 1) leaves the first `order` keys, pop takes the last of them
        kept == Min2(n, order)
        medianKey == fullChild.keys[kept]
        medianValue == fullChild.values[kept]
        nc == Len(fullChild.children)
        newChild == [keys |-> SubSeq(fullChild.keys, order + 1, n),
                     values |-> SubSeq(fullChild.values, order + 1, n),
                     children |-> IF fullChild.isLeaf THEN <<>>
                                  ELSE SubSeq(fullChild.children, order + 1, nc),
                     isLeaf |-> fullChild.isLeaf]
        left == [keys |-> SubSeq(fullChild.keys, 1, kept - 1),
                 values |-> SubSeq(fullChild.values, 1, kept - 1),
                 children |-> IF fullChild.isLeaf THEN fullChild.children
                              ELSE SubSeq(fullChild.children, 1, Min2(nc, order)),
                 isLeaf |-> fullChild.isLeaf]
    IN [keys |-> InsertAt(parent.keys, index, medianKey),
        values |-> InsertAt(parent.values, index, medianValue),
        children |-> InsertAt([parent.children EXCEPT ![index] = left], index + 1, newChild),
        isLeaf |-> parent.isLeaf]

\* The loop `while (i >= 0 && key < node.keys[i]) i--` started at i: the
\* number of keys left of the insertion point.
RECURSIVE DescendPos(_, _, _)
DescendPos(keys, key, i) ==
    IF i >= 1 /\ JsLT(key, keys[i]) THEN DescendPos(keys, key, i - 1) ELSE i

\* A leaf branch that puts the key behind the keys of the leaf without
\* looking for its place.
LeafInsert_AtEnd(node, lists, key, row) ==
    [node |-> [node EXCEPT !.keys = Append(node.keys, key),
                           !.values = Append(node.values, Len(lists) + 1)],
     lists |-> Append(lists, <<row>>)]

\* The leaf branch of insertNonFull: the slot the key is written to keeps the
\* array it held before the shift, and the row is pushed onto that array.
LeafInsert(node, lists, key, row) ==
    LET n == Len(node.keys)
        p == DescendPos(node.keys, key, n)
        keys2 == InsertAt(node.keys, p + 1, key)
    IN IF p = n
       THEN \* no shift: the slot holds the fresh array pushed at the end
            [node |-> [node EXCEPT !.keys = keys2,
                                   !.values = Append(node.values, Len(lists) + 1)],
             lists |-> Append(lists, <<row>>)]
       ELSE \* shifted: values[p+1] still refers to the array now also at p+2
            [node |-> [node EXCEPT !.keys = keys2,
                                   !.values = InsertAt(node.values, p + 1, node.values[p + 1])],
             lists |-> [lists EXCEPT ![node.values[p + 1]] = Append(@, row)]]

\* insertNonFull(node, key, row): the node and the row arrays after the
\* call, and the numbers of keys held by the nodes the call and its recursive
\* calls were entered on, in order.
RECURSIVE insertNonFull(_, _, _, _, _)
insertNonFull(node, lists, key, row, order) ==
    IF node.isLeaf
    THEN LET r == LeafInsert(node, lists, key, row)
         IN [node |-> r.node, lists |-> r.lists, entered |-> <<Len(node.keys)>>]
    ELSE LET p == DescendPos(node.keys, key, Len(node.keys))
             i == p + 1
             doSplit == IsFull(node.children[i], order)
             node2 == IF doSplit THEN splitChild(node, i, order) ELSE node
             j == IF doSplit /\ JsGT(key, node2.keys[i]) THEN i + 1 ELSE i
             sub == insertNonFull(node2.children[j], lists, key, row, order)
         IN [node |-> [node2 EXCEPT !.children[j] = sub.node],
             lists |-> sub.lists,
             entered |-> <<Len(node.keys)>> \o sub.entered]

\* An insert that descends from the root as it is, full or not.
BTree_insertCall_NoRootSplit(tree, key, row) ==
    IF IsNullish(key) THEN [tree |-> tree, entered |-> <<>>]
    ELSE LET r == insertNonFull(tree.root, tree.lists, key, row, tree.order)
         IN [tree |-> [root |-> r.node, lists |-> r.lists, order |-> tree.order],
             entered |-> r.entered]

\* A call of insert(key, row): the tree after it and the numbers of keys of
\* the nodes insertNonFull was entered on.
BTree_insertCall(tree, key, row) ==
    IF IsNullish(key) THEN [tree |-> tree, entered |-> <<>>]
    ELSE LET root2 == IF IsFull(tree.root, tree.order)
                      THEN splitChild([BTreeNode(FALSE) EXCEPT !.children = <<tree.root>>],
                                      1, tree.order)
                      ELSE tree.root
             r == insertNonFull(root2, tree.lists, key, row, tree.order)
         IN [tree |-> [root |-> r.node, lists |-> r.lists, order |-> tree.order],
             entered |-> r.entered]

\* BTreeIndex.insert(key, row)
BTree_insert(tree, key, row) == BTree_insertCall(tree, key, row).tree

\* The loop `while (i < node.keys.length && key > node.keys[i]) i++` from i (1-based).
RECURSIVE SearchPos(_, _, _)
SearchPos(keys, key, i) ==
    IF i <= Len(keys) /\ JsGT(key, keys[i]) THEN SearchPos(keys, key, i + 1) ELSE i

\* searchNode(node, key): the reference of the row array found, 0 for the
\* fresh empty array returned when no key matches.
RECURSIVE searchNode(_, _)
searchNode(node, key) ==
    LET i == SearchPos(node.keys, key, 1)
    IN IF i <= Len(node.keys) /\ StrictEq(key, node.keys[i]) THEN node.values[i]
       ELSE IF node.isLeaf THEN 0
       ELSE searchNode(node.children[i], key)

\* BTreeIndex.search(key)
BTree_search(tree, key) ==
    LET ref == searchNode(tree.root, key)
    IN IF ref = 0 THEN <<>> ELSE tree.lists[ref]

\* BTreeIndex.delete(key, row)
BTree_delete(tree, key, row) ==
    LET ref == searchNode(tree.root, key)
    IN IF ref = 0 THEN tree
       ELSE LET index == IndexOf(tree.lists[ref], row)
            IN IF index > 0
               THEN [tree EXCEPT !.lists[ref] = RemoveAt(@, index)]
               ELSE tree

\* The rows of the arrays values[i] of a node, as `results.push(...node.values[i])`.
RowsAt(node, lists, i) == lists[node.values[i]]

\* rangeSearch(node, minKey, maxKey, results): the rows pushed onto results.
\* RangeFrom is the for loop from position i (1-based) and the trailing
\* descent into the last child.
RECURSIVE rangeSearch(_, _, _, _), RangeFrom(_, _, _, _, _)
RangeFrom(node, lists, minKey, maxKey, i) ==
    IF i > Len(node.keys)
    THEN IF node.isLeaf THEN <<>> ELSE rangeSearch(node.children[i], lists, minKey, maxKey)
    ELSE (IF node.isLeaf THEN <<>> ELSE rangeSearch(node.children[i], lists, minKey, maxKey))
         \o (IF JsGE(node.keys[i], minKey) /\ JsLE(node.keys[i], maxKey)
             THEN RowsAt(node, lists, i) ELSE <<>>)
         \o (IF JsGT(node.keys[i], maxKey) THEN <<>>
             ELSE RangeFrom(node, lists, minKey, maxKey, i + 1))

rangeSearch(node, lists, minKey, maxKey) == RangeFrom(node, lists, minKey, maxKey, 1)

\* BTreeIndex.range(minKey, maxKey)
BTree_range(tree, minKey, maxKey) == rangeSearch(tree.root, tree.lists, minKey, maxKey)

\* greaterThanSearch(node, key, results)
RECURSIVE greaterThanSearch(_, _, _), GreaterThanFrom(_, _, _, _)
GreaterThanFrom(node, lists, key, i) ==
    IF i > Len(node.keys)
    THEN IF node.isLeaf THEN <<>> ELSE greaterThanSearch(node.children[i], lists, key)
    ELSE (IF node.isLeaf THEN <<>> ELSE greaterThanSearch(node.children[i], lists, key))
         \o (IF JsGT(node.keys[i], key) THEN RowsAt(node, lists, i) ELSE <<>>)
         \o GreaterThanFrom(node, lists, key, i + 1)

greaterThanSearch(node, lists, key) == GreaterThanFrom(node, lists, key, 1)

\* BTreeIndex.greaterThan(key)
BTree_greaterThan(tree, key) == greaterThanSearch(tree.root, tree.lists, key)

\* greaterThanOrEqualSearch(node, key, results)
RECURSIVE greaterThanOrEqualSearch(_, _, _), GreaterThanOrEqualFrom(_, _, _, _)
GreaterThanOrEqualFrom(node, lists, key, i) ==
    IF i > Len(node.keys)
    THEN IF node.isLeaf THEN <<>> ELSE greaterThanOrEqualSearch(node.children[i], lists, key)
    ELSE (IF node.isLeaf THEN <<>> ELSE greaterThanOrEqualSearch(node.children[i], lists, key))
         \o (IF JsGE(node.keys[i], key) THEN RowsAt(node, lists, i) ELSE <<>>)
         \o GreaterThanOrEqualFrom(node, lists, key, i + 1)

greaterThanOrEqualSearch(node, lists, key) == GreaterThanOrEqualFrom(node, lists, key, 1)

\* BTreeIndex.greaterThanOrEqual(key)
BTree_greaterThanOrEqual(tree, key) == greaterThanOrEqualSearch(tree.root, tree.lists, key)

\* lessThanSearch(node, key, results): the loop returns from the whole call
\* at the first key that is not < key; only a loop that ran to its end looks
\* at the last child.
RECURSIVE lessThanSearch(_, _, _), LessThanFrom(_, _, _, _)
LessThanFrom(node, lists, key, i) ==
    IF i > Len(node.keys)
    THEN IF ~node.isLeaf /\ Len(node.keys) > 0 /\ JsLT(node.keys[Len(node.keys)], key)
         THEN lessThanSearch(node.children[Len(node.children)], lists, key)
         ELSE <<>>
    ELSE (IF node.isLeaf THEN <<>> ELSE lessThanSearch(node.children[i], lists, key))
         \o (IF JsLT(node.keys[i], key)
             THEN RowsAt(node, lists, i) \o LessThanFrom(node, lists, key, i + 1)
             ELSE <<>>)

lessThanSearch(node, lists, key) == LessThanFrom(node, lists, key, 1)

\* BTreeIndex.lessThan(key)
BTree_lessThan(tree, key) == lessThanSearch(tree.root, tree.lists, key)

\* lessThanOrEqualSearch(node, key, results)
RECURSIVE lessThanOrEqualSearch(_, _, _), LessThanOrEqualFrom(_, _, _, _)
LessThanOrEqualFrom(node, lists, key, i) ==
    IF i > Len(node.keys)
    THEN IF ~node.isLeaf /\ Len(node.keys) > 0 /\ JsLE(node.keys[Len(node.keys)], key)
         THEN lessThanOrEqualSearch(node.children[Len(node.children)], lists, key)
         ELSE <<>>
    ELSE (IF node.isLeaf THEN <<>> ELSE lessThanOrEqualSearch(node.children[i], lists, key))
         \o (IF JsLE(node.keys[i], key)
             THEN RowsAt(node, lists, i) \o LessThanOrEqualFrom(node, lists, key, i + 1)
             ELSE <<>>)

lessThanOrEqualSearch(node, lists, key) == LessThanOrEqualFrom(node, lists, key, 1)

\* BTreeIndex.lessThanOrEqual(key)
BTree_lessThanOrEqual(tree, key) == lessThanOrEqualSearch(tree.root, tree.lists, key)

\* inOrderTraversal(node, results)
RECURSIVE inOrderTraversal(_, _), InOrderFrom(_, _, _)
InOrderFrom(node, lists, i) ==
    IF i > Len(node.keys)
    THEN IF ~node.isLeaf /\ Len(node.children) > Len(node.keys)
         THEN inOrderTraversal(node.children[Len(node.children)], lists)
         ELSE <<>>
    ELSE (IF node.isLeaf THEN <<>> ELSE inOrderTraversal(node.children[i], lists))
         \o RowsAt(node, lists, i)
         \o InOrderFrom(node, lists, i + 1)

inOrderTraversal(node, lists) == InOrderFrom(node, lists, 1)

\* BTreeIndex.getAllSorted()
getAllSorted(tree) == inOrderTraversal(tree.root, tree.lists)

(***************************************************************************)
(* Table.  A table is [columns, rows, heap, indexCols, indices, btreeCols, *)
(* btreeIndices]: heap[r] is the row object with reference r (a function   *)
(* from column names to values, Undef for a field the object lacks), rows  *)
(* the row store (references, in storage order), indices[c] the hash       *)
(* index of column c (a Map from value to an array of references) and      *)
(* btreeIndices[c] its range index.  indexCols and btreeCols give the      *)
(* iteration order of the two Maps.                                        *)
(***************************************************************************)
Column(name, type, pk, unique, nullable) ==
    [name |-> name, type |-> type, isPrimaryKey |-> pk, isUnique |-> unique,
     isNullable |-> nullable]

ColNames(columns) == {columns[i].name : i \in 1..Len(columns)}

\* this.columns.find(c => c.name === colName)
ColDef(columns, colName) ==
    columns[CHOOSE i \in 1..Len(columns) :
                columns[i].name = colName /\ \A j \in 1..(i - 1) : columns[j].name # colName]

\* new Map()
EmptyMap == [x \in {} |-> <<>>]

MapHas(m, k) == k \in DOMAIN m

MapSet(m, k, x) == [y \in (DOMAIN m) \cup {k} |-> IF y = k THEN x ELSE m[y]]

MapDelete(m, k) == [y \in (DOMAIN m) \ {k} |-> m[y]]

\* The column names, in column order.
ColNameSeq(columns) == [i \in 1..Len(columns) |-> columns[i].name]

\* The names of the columns at the positions of `wanted`, in column order, a
\* name once: createIndex and createBTreeIndex skip a name that already has
\* its index.
FirstNames(columns, wanted) ==
    LET first == {i \in wanted : \A j \in wanted : j < i => columns[j].name # columns[i].name}
        at == SelectSeq([i \in 1..Len(columns) |-> i], LAMBDA i : i \in first)
    IN [k \in 1..Len(at) |-> columns[at[k]].name]

\* The columns given a hash index by the constructor (primary key or unique),
\* in the order the constructor creates them.
KeyCols(columns) ==
    FirstNames(columns, {i \in 1..Len(columns) :
                            columns[i].isPrimaryKey \/ columns[i].isUnique})

\* The columns given a B-tree index by the constructor (type number).
NumberCols(columns) ==
    FirstNames(columns, {i \in 1..Len(columns) : columns[i].type = "number"})

\* The constructor throws at a primary-key column when this.primaryKeyCol,
\* the name of the primary-key column before it, is truthy: a primary-key
\* column named '' lets the next one through.
TwoPrimaryKeys(columns) ==
    \E i, j \in 1..Len(columns) :
        /\ i < j
        /\ columns[i].isPrimaryKey /\ columns[i].name # ""
        /\ columns[j].isPrimaryKey

\* new Table(name, columns), for a column list the constructor accepts
Table(columns) ==
    [columns |-> columns,
     rows |-> <<>>,
     heap |-> <<>>,
     indexCols |-> KeyCols(columns),
     indices |-> [c \in SeqToSet(KeyCols(columns)) |-> EmptyMap],
     btreeCols |-> NumberCols(columns),
     btreeIndices |-> [c \in SeqToSet(NumberCols(columns)) |-> BTreeIndex]]

\* row[col] of a row object: undefined for a field the object lacks
Get(row, col) == IF col \in DOMAIN row THEN row[col] ELSE Undef

\* row[colName] of the row object with reference r
Field(t, r, colName) == Get(t.heap[r], colName)

\* addToIndex(colName, row): [t, err], err the column of the violated constraint
addToIndex(t, colName, row) ==
    LET index == t.indices[colName]
        val == Field(t, row, colName)
        \* colDef?.isUnique || colDef?.isPrimaryKey: false for a name that is no column
        unique == /\ colName \in ColNames(t.columns)
                  /\ (ColDef(t.columns, colName).isUnique
                      \/ ColDef(t.columns, colName).isPrimaryKey)
        bucket == IF MapHas(index, val) THEN index[val] ELSE <<>>
    IN IF IsNullish(val) THEN [t |-> t, err |-> "none"]
       ELSE IF unique /\ Len(bucket) > 0
       THEN \* the bucket existed (a fresh one is empty), so nothing was set
            [t |-> t, err |-> "unique"]
       ELSE [t |-> [t EXCEPT !.indices[colName] = MapSet(index, val, Append(bucket, row))],
             err |-> "none"]

\* A removeFromIndex that leaves the bucket of the value in the index when
\* its last row is taken out.
removeFromIndex_KeepsBucket(t, colName, row) ==
    IF colName \notin DOMAIN t.indices THEN t
    ELSE LET index == t.indices[colName]
             val == Field(t, row, colName)
         IN IF IsNullish(val) \/ ~MapHas(index, val) THEN t
            ELSE LET rowIdx == IndexOf(index[val], row)
                     rows2 == IF rowIdx > 0 THEN RemoveAt(index[val], rowIdx) ELSE index[val]
                 IN [t EXCEPT !.indices[colName] = MapSet(index, val, rows2)]

\* removeFromIndex(colName, row)
removeFromIndex(t, colName, row) ==
    IF colName \notin DOMAIN t.indices THEN t
    ELSE LET index == t.indices[colName]
             val == Field(t, row, colName)
         IN IF IsNullish(val) \/ ~MapHas(index, val) THEN t
            ELSE LET rowIdx == IndexOf(index[val], row)
                     rows2 == IF rowIdx > 0 THEN RemoveAt(index[val], rowIdx) ELSE index[val]
                 IN IF Len(rows2) = 0
                    THEN [t EXCEPT !.indices[colName] = MapDelete(index, val)]
                    ELSE [t EXCEPT !.indices[colName] = MapSet(index, val, rows2)]

\* The loop of createIndex over the rows stored, from position i; a throwing
\* addToIndex ends it with the index as built so far.
RECURSIVE IndexRows(_, _, _)
IndexRows(t, colName, i) ==
    IF i > Len(t.rows) THEN [t |-> t, err |-> "none"]
    ELSE LET r == addToIndex(t, colName, t.rows[i])
         IN IF r.err # "none" THEN r ELSE IndexRows(r.t, colName, i + 1)

\* Table.createIndex(colName): [t, err]
Table_createIndex(t, colName) ==
    IF colName \in DOMAIN t.indices THEN [t |-> t, err |-> "none"]
    ELSE IndexRows([t EXCEPT !.indexCols = Append(@, colName),
                             !.indices = MapSet(@, colName, EmptyMap)],
                   colName, 1)

\* The loop of createBTreeIndex over the rows stored, from position i.
RECURSIVE BTreeRows(_, _, _)
BTreeRows(t, colName, i) ==
    IF i > Len(t.rows) THEN t
    ELSE LET value == Field(t, t.rows[i], colName)
         IN BTreeRows(IF IsNullish(value) THEN t
                      ELSE [t EXCEPT !.btreeIndices[colName] = BTree_insert(@, value, t.rows[i])],
                      colName, i + 1)

\* Table.createBTreeIndex(colName)
Table_createBTreeIndex(t, colName) ==
    IF colName \in DOMAIN t.btreeIndices THEN t
    ELSE BTreeRows([t EXCEPT !.btreeCols = Append(@, colName),
                             !.btreeIndices = MapSet(@, colName, BTreeIndex)],
                   colName, 1)

\* The type validation of insert: the first column, in column order, whose
\* value has the wrong type ("type") or is missing though not nullable ("null").
RECURSIVE ValidateTypes(_, _)
ValidateTypes(columns, row) ==
    IF columns = <<>> THEN "none"
    ELSE LET col == Head(columns)
         IN IF row[col.name] # Undef
            THEN IF TypeOf(row[col.name]) # col.type THEN "type"
                 ELSE ValidateTypes(Tail(columns), row)
            ELSE IF ~col.isNullable THEN "null"
                 ELSE ValidateTypes(Tail(columns), row)

\* The uniqueness pre-check of insert over the hash indices.
UniquePrecheck(t, row) ==
    IF \E i \in 1..Len(t.indexCols) :
          LET colName == t.indexCols[i]
          IN /\ ~IsNullish(Get(row, colName))
             /\ colName \in ColNames(t.columns)
             /\ (ColDef(t.columns, colName).isUnique
                 \/ ColDef(t.columns, colName).isPrimaryKey)
             /\ MapHas(t.indices[colName], Get(row, colName))
    THEN "unique" ELSE "none"

\* The loop of insert over the hash indices: a throwing addToIndex pops the
\* row store and rethrows, leaving the indices already updated as they are.
RECURSIVE InsertIntoIndices(_, _, _)
InsertIntoIndices(t, cols, row) ==
    IF cols = <<>> THEN [t |-> t, err |-> "none"]
    ELSE LET r == addToIndex(t, Head(cols), row)
         IN IF r.err # "none"
            THEN [t |-> [r.t EXCEPT !.rows = SubSeq(@, 1, Len(@) - 1)], err |-> r.err]
            ELSE InsertIntoIndices(r.t, Tail(cols), row)

\* The loop of insert over the B-tree indices.
RECURSIVE InsertIntoBTrees(_, _, _)
InsertIntoBTrees(t, cols, row) ==
    IF cols = <<>> THEN t
    ELSE LET colName == Head(cols)
             value == Field(t, row, colName)
             t2 == IF IsNullish(value) THEN t
                   ELSE [t EXCEPT !.btreeIndices[colName] = BTree_insert(@, value, row)]
         IN InsertIntoBTrees(t2, Tail(cols), row)

\* The storage part of insert, after the checks.
StoreRow(t, row) ==
    LET ref == Len(t.heap) + 1
        t1 == [t EXCEPT !.heap = Append(@, row), !.rows = Append(@, ref)]
        r == InsertIntoIndices(t1, t1.indexCols, ref)
    IN IF r.err # "none" THEN r
       ELSE [t |-> InsertIntoBTrees(r.t, r.t.btreeCols, ref), err |-> "none"]

\* A variant of insert that pushes the row into the row store before the
\* checks and leaves it there when a check fails.
Table_insert_PushFirst(t, row) ==
    LET e1 == ValidateTypes(t.columns, row)
        e2 == UniquePrecheck(t, row)
        pushed == [t EXCEPT !.heap = Append(@, row), !.rows = Append(@, Len(t.heap) + 1)]
    IN IF e1 # "none" THEN [t |-> pushed, err |-> e1]
       ELSE IF e2 # "none" THEN [t |-> pushed, err |-> e2]
       ELSE StoreRow(t, row)

\* Table.insert(row): [t, err]; err is "none" when the call returns
Table_insert(t, row) ==
    LET e1 == ValidateTypes(t.columns, row)
        e2 == UniquePrecheck(t, row)
    IN IF e1 # "none" THEN [t |-> t, err |-> e1]
       ELSE IF e2 # "none" THEN [t |-> t, err |-> e2]
       ELSE StoreRow(t, row)

\* A predicate or a change set (Partial<Row>) is a sequence of [key, val]
\* with distinct keys, in the order `for (const key in where)` visits them.
Pair(key, val) == [key |-> key, val |-> val]

\* The filter of select: row[key] === where[key] for every key.
Matches(t, r, where) ==
    \A i \in 1..Len(where) : StrictEq(Field(t, r, where[i].key), where[i].val)

\* The optimizer loop of select from position i: cand is candidateRows
\* (used = FALSE for null); empty is the early `return []`.
RECURSIVE Candidates(_, _, _, _, _)
Candidates(t, where, i, used, cand) ==
    IF i > Len(where) THEN [empty |-> FALSE, used |-> used, cand |-> cand]
    ELSE LET key == where[i].key
             val == where[i].val
         IN IF key \in DOMAIN t.indices
            THEN IF MapHas(t.indices[key], val)
                 THEN LET hits == t.indices[key][val]
                      IN IF ~used \/ Len(hits) < Len(cand)
                         THEN Candidates(t, where, i + 1, TRUE, hits)
                         ELSE Candidates(t, where, i + 1, used, cand)
                 ELSE [empty |-> TRUE, used |-> used, cand |-> <<>>]
            ELSE Candidates(t, where, i + 1, used, cand)

\* Table.select(where): the references of the rows returned, in order
Table_select(t, where) ==
    IF Len(where) = 0 THEN t.rows
    ELSE LET c == Candidates(t, where, 1, FALSE, <<>>)
             searchSpace == IF c.used THEN c.cand ELSE t.rows
         IN IF c.empty THEN <<>>
            ELSE FilterSeq(searchSpace, {r \in SeqToSet(searchSpace) : Matches(t, r, where)})

\* A call of select(where) that copies the row store with splice(0) where
\* slice(0) was meant: the rows are returned and the row store is left empty.
Table_selectCall_Splice(t, where) ==
    [t |-> [t EXCEPT !.rows = IF Len(where) = 0 THEN <<>> ELSE @],
     ret |-> Table_select(t, where)]

\* A call of select(where): the table after the call and the rows returned.
\* The method assigns no field of the table.
Table_selectCall(t, where) == [t |-> t, ret |-> Table_select(t, where)]

\* removeFromIndex over every hash index.
RECURSIVE RemoveFromIndices(_, _, _)
RemoveFromIndices(t, cols, row) ==
    IF cols = <<>> THEN t
    ELSE RemoveFromIndices(removeFromIndex(t, Head(cols), row), Tail(cols), row)

\* addToIndex over every hash index; the first throw ends the loop.
RECURSIVE AddToIndices(_, _, _)
AddToIndices(t, cols, row) ==
    IF cols = <<>> THEN [t |-> t, err |-> "none"]
    ELSE LET r == addToIndex(t, Head(cols), row)
         IN IF r.err # "none" THEN r ELSE AddToIndices(r.t, Tail(cols), row)

\* `for (const key in updates) row[key] = updates[key]`
RECURSIVE ApplyUpdates(_, _)
ApplyUpdates(row, updates) ==
    IF updates = <<>> THEN row
    ELSE ApplyUpdates([c \in (DOMAIN row) \cup {Head(updates).key} |->
                          IF c = Head(updates).key THEN Head(updates).val ELSE row[c]],
                      Tail(updates))

\* The body of the update loop for one row.
UpdateRow(t, row, updates) ==
    LET t1 == RemoveFromIndices(t, t.indexCols, row)
        t2 == [t1 EXCEPT !.heap[row] = ApplyUpdates(@, updates)]
    IN AddToIndices(t2, t2.indexCols, row)

\* The update loop over rowsToUpdate.
RECURSIVE UpdateRows(_, _, _)
UpdateRows(t, rowsToUpdate, updates) ==
    IF rowsToUpdate = <<>> THEN [t |-> t, err |-> "none"]
    ELSE LET r == UpdateRow(t, Head(rowsToUpdate), updates)
         IN IF r.err # "none" THEN r ELSE UpdateRows(r.t, Tail(rowsToUpdate), updates)

\* Table.update(where, updates): [t, err, ret], ret the value returned
Table_update(t, where, updates) ==
    LET rowsToUpdate == Table_select(t, where)
        r == UpdateRows(t, rowsToUpdate, updates)
    IN [t |-> r.t, err |-> r.err, ret |-> Len(rowsToUpdate)]

\* btree.delete(value, row) over every B-tree index.
RECURSIVE DeleteFromBTrees(_, _, _)
DeleteFromBTrees(t, cols, row) ==
    IF cols = <<>> THEN t
    ELSE LET colName == Head(cols)
             value == Field(t, row, colName)
             t2 == IF IsNullish(value) THEN t
                   ELSE [t EXCEPT !.btreeIndices[colName] = BTree_delete(@, value, row)]
         IN DeleteFromBTrees(t2, Tail(cols), row)

\* A delete loop body that fills the place of the removed row with the last
\* row of the row store instead of closing the gap.
DeleteRow_SwapRemove(t, row) ==
    LET t1 == RemoveFromIndices(t, t.indexCols, row)
        t2 == DeleteFromBTrees(t1, t1.btreeCols, row)
        idx == IndexOf(t2.rows, row)
        n == Len(t2.rows)
    IN IF idx > 0
       THEN [t2 EXCEPT !.rows = SubSeq([t2.rows EXCEPT ![idx] = t2.rows[n]], 1, n - 1)]
       ELSE t2

\* The body of the delete loop for one row.
DeleteRow(t, row) ==
    LET t1 == RemoveFromIndices(t, t.indexCols, row)
        t2 == DeleteFromBTrees(t1, t1.btreeCols, row)
        idx == IndexOf(t2.rows, row)
    IN IF idx > 0 THEN [t2 EXCEPT !.rows = RemoveAt(@, idx)] ELSE t2

\* The delete loop over an array of its own (the result of filter).
RECURSIVE DeleteRows(_, _)
DeleteRows(t, rowsToDelete) ==
    IF rowsToDelete = <<>> THEN t
    ELSE DeleteRows(DeleteRow(t, Head(rowsToDelete)), Tail(rowsToDelete))

\* The delete loop when rowsToDelete is this.rows itself (select of an empty
\* predicate): the array iterator reads position i of the array as it is now.
RECURSIVE DeleteRowsLive(_, _)
DeleteRowsLive(t, i) ==
    IF i > Len(t.rows) THEN t
    ELSE DeleteRowsLive(DeleteRow(t, t.rows[i]), i + 1)

\* Table.delete(where): [t, err, ret]
Table_delete(t, where) ==
    LET rowsToDelete == Table_select(t, where)
    IN [t |-> IF Len(where) = 0 THEN DeleteRowsLive(t, 1) ELSE DeleteRows(t, rowsToDelete),
        err |-> "none",
        ret |-> Len(rowsToDelete)]

\* this.rows.filter(row => test(row[column]))
ScanRows(t, keep) == FilterSeq(t.rows, keep)

\* Table.selectGreaterThan(column, value)
Table_selectGreaterThan(t, column, value) ==
    IF column \notin DOMAIN t.btreeIndices
    THEN ScanRows(t, {r \in SeqToSet(t.rows) : JsGT(Field(t, r, column), value)})
    ELSE BTree_greaterThan(t.btreeIndices[column], value)

\* Table.selectGreaterThanOrEqual(column, value)
Table_selectGreaterThanOrEqual(t, column, value) ==
    IF column \notin DOMAIN t.btreeIndices
    THEN ScanRows(t, {r \in SeqToSet(t.rows) : JsGE(Field(t, r, column), value)})
    ELSE BTree_greaterThanOrEqual(t.btreeIndices[column], value)

\* Table.selectLessThan(column, value)
Table_selectLessThan(t, column, value) ==
    IF column \notin DOMAIN t.btreeIndices
    THEN ScanRows(t, {r \in SeqToSet(t.rows) : JsLT(Field(t, r, column), value)})
    ELSE BTree_lessThan(t.btreeIndices[column], value)

\* Table.selectLessThanOrEqual(column, value)
Table_selectLessThanOrEqual(t, column, value) ==
    IF column \notin DOMAIN t.btreeIndices
    THEN ScanRows(t, {r \in SeqToSet(t.rows) : JsLE(Field(t, r, column), value)})
    ELSE BTree_lessThanOrEqual(t.btreeIndices[column], value)

\* Table.selectBetween(column, minValue, maxValue)
Table_selectBetween(t, column, minValue, maxValue) ==
    IF column \notin DOMAIN t.btreeIndices
    THEN ScanRows(t, {r \in SeqToSet(t.rows) :
                         JsGE(Field(t, r, column), minValue) /\ JsLE(Field(t, r, column), maxValue)})
    ELSE BTree_range(t.btreeIndices[column], minValue, maxValue)

(***************************************************************************)
(* Database: the registry of tables and the snapshot file.  A database is *)
(* [order, tables, disk]: tables the Map from name to Table, order its    *)
(* iteration order, disk the file pesadb.json: whether it exists and the   *)
(* tables written in it.                                                   *)
(***************************************************************************)
\* The rows of a table as JSON.stringify writes them.
RowObjects(t) == [i \in 1..Len(t.rows) |-> t.heap[t.rows[i]]]

\* Database.save(): the snapshot written
Snapshot(d) ==
    [i \in 1..Len(d.order) |->
        [name |-> d.order[i],
         columns |-> d.tables[d.order[i]].columns,
         rows |-> RowObjects(d.tables[d.order[i]])]]

\* Database.save()
Database_save(d) == [d EXCEPT !.disk = [exists |-> TRUE, tables |-> Snapshot(d)]]

\* new Database()
Database ==
    [order |-> <<>>, tables |-> EmptyMap, disk |-> [exists |-> FALSE, tables |-> <<>>]]

\* A variant of createTable that registers the new table over one of the same
\* name.
Database_createTable_Replacing(d, name, columns) ==
    IF TwoPrimaryKeys(columns) THEN [d |-> d, err |-> "twopk"]
    ELSE [d |-> Database_save([d EXCEPT !.order = IF MapHas(d.tables, name) THEN @
                                                  ELSE Append(@, name),
                                        !.tables = MapSet(@, name, Table(columns))]),
          err |-> "none"]

\* Database.createTable(name, columns): [d, err]
Database_createTable(d, name, columns) ==
    IF MapHas(d.tables, name) THEN [d |-> d, err |-> "exists"]
    ELSE IF TwoPrimaryKeys(columns) THEN [d |-> d, err |-> "twopk"]
    ELSE [d |-> Database_save([d EXCEPT !.order = Append(@, name),
                                        !.tables = MapSet(@, name, Table(columns))]),
          err |-> "none"]

\* A value read back from JSON text: a field holding undefined is left out by
\* JSON.stringify and reads as undefined again; texts, finite numbers,
\* booleans and null are written and parsed as themselves.
JsonValue(x) ==
    CASE TypeOf(x) = "undefined" -> Undef
      [] TypeOf(x) = "string" -> Str(x.v)
      [] TypeOf(x) = "number" -> Num(x.v)
      [] OTHER -> x

\* A row object read back from the snapshot.
JsonRow(row) == [c \in DOMAIN row |-> JsonValue(row[c])]

\* The loop `for (const row of tData.rows) table.insert(row)` of load.
RECURSIVE LoadRows(_, _)
LoadRows(t, rows) ==
    IF rows = <<>> THEN [t |-> t, err |-> "none"]
    ELSE LET r == Table_insert(t, JsonRow(Head(rows)))
         IN IF r.err # "none" THEN r ELSE LoadRows(r.t, Tail(rows))

\* The loop of load over backup.tables from position i: a throw of the Table
\* constructor or of insert is caught behind the loop, so the tables set
\* before it stay and the others are missing.
RECURSIVE LoadTables(_, _, _)
LoadTables(d, backup, i) ==
    IF i > Len(backup) THEN d
    ELSE LET tData == backup[i]
         IN IF TwoPrimaryKeys(tData.columns) THEN d
            ELSE LET r == LoadRows(Table(tData.columns), tData.rows)
                 IN IF r.err # "none" THEN d
                    ELSE LoadTables([d EXCEPT !.order = IF MapHas(d.tables, tData.name) THEN @
                                                         ELSE Append(@, tData.name),
                                              !.tables = MapSet(@, tData.name, r.t)],
                                    backup, i + 1)

\* Database.load(): without the file, load returns before it touches the
\* registry.
Database_load(d) ==
    IF ~d.disk.exists THEN d
    ELSE LoadTables([d EXCEPT !.order = <<>>, !.tables = EmptyMap], d.disk.tables, 1)

\* Database.dropTable(name): [d, err]
Database_dropTable(d, name) ==
    IF ~MapHas(d.tables, name) THEN [d |-> d, err |-> "notfound"]
    ELSE [d |-> Database_save([d EXCEPT !.order = SelectSeq(@, LAMBDA n : n # name),
                                        !.tables = MapDelete(@, name)]),
          err |-> "none"]

\* Database.getTable(name) throws when the name is not registered.
HasTable(d, name) == MapHas(d.tables, name)

(***************************************************************************)
(* SQLParser.  A command is the record of what the statement's pattern    *)
(* captures; a literal is a token [form, n]: a text in double or single   *)
(* quotes, true, false, a numeral, or a bare word.                         *)
(***************************************************************************)
Tok(form, n) == [form |-> form, n |-> n]

\* parseValue(val)
parseValue(tok) ==
    CASE tok.form = "dq" -> Str(tok.n)
      [] tok.form = "sq" -> Str(tok.n)
      [] tok.form = "true" -> Bool(TRUE)
      [] tok.form = "false" -> Bool(FALSE)
      [] tok.form = "num" -> Num(tok.n)
      [] OTHER -> Str(tok.n)

\* A condition `key = lit` as text: eqs is the number of "=" signs in it.
Clause(key, eqs, lit) == [key |-> key, eqs |-> eqs, lit |-> lit]

\* parseWhere(clause): [where, err]
parseWhere(clause) ==
    IF clause.eqs # 1 THEN [where |-> <<>>, err |-> "where"]
    ELSE [where |-> <<Pair(clause.key, parseValue(clause.lit))>>, err |-> "none"]

SupportedTypes == {"string", "number", "boolean"}

\* The columns handleCreateTable builds from the column definitions.
ParsedColumns(colsDef) ==
    [i \in 1..Len(colsDef) |->
        Column(colsDef[i].name, colsDef[i].type, colsDef[i].pk, colsDef[i].unique, FALSE)]

\* handleCreateTable(cmd): [d, err, ret, out]
handleCreateTable(d, cmd) ==
    IF ~cmd.matches THEN [d |-> d, err |-> "syntax", ret |-> 0, out |-> <<>>]
    ELSE IF \E i \in 1..Len(cmd.colsDef) : cmd.colsDef[i].type \notin SupportedTypes
    THEN [d |-> d, err |-> "unsupported", ret |-> 0, out |-> <<>>]
    ELSE LET r == Database_createTable(d, cmd.table, ParsedColumns(cmd.colsDef))
         IN [d |-> r.d, err |-> r.err, ret |-> 0, out |-> <<>>]

\* The row handleInsert builds: row[col] = vals[i] in order, a later
\* assignment to the same column replacing an earlier one.
RECURSIVE BuildRow(_, _, _)
BuildRow(row, cols, vals) ==
    IF cols = <<>> THEN row
    ELSE BuildRow([c \in (DOMAIN row) \cup {Head(cols)} |->
                      IF c = Head(cols) THEN parseValue(Head(vals)) ELSE row[c]],
                  Tail(cols), Tail(vals))

\* The row object as the table's heap holds it: every field the statement
\* names, and Undef for a column of the table the object lacks.
OverColumns(t, row) == [c \in ColNames(t.columns) \cup DOMAIN row |-> Get(row, c)]

\* handleInsert(cmd): [d, err, ret, out]
handleInsert(d, cmd) ==
    IF ~cmd.matches THEN [d |-> d, err |-> "syntax", ret |-> 0, out |-> <<>>]
    ELSE IF Len(cmd.cols) # Len(cmd.vals) THEN [d |-> d, err |-> "mismatch", ret |-> 0, out |-> <<>>]
    ELSE IF ~HasTable(d, cmd.table) THEN [d |-> d, err |-> "notfound", ret |-> 0, out |-> <<>>]
    ELSE LET table == d.tables[cmd.table]
             r == Table_insert(table, OverColumns(table, BuildRow(EmptyMap, cmd.cols, cmd.vals)))
         IN IF r.err # "none"
            THEN [d |-> [d EXCEPT !.tables[cmd.table] = r.t], err |-> r.err, ret |-> 0, out |-> <<>>]
            ELSE [d |-> Database_save([d EXCEPT !.tables[cmd.table] = r.t]),
                  err |-> "none", ret |-> 1, out |-> <<>>]

\* The updates handleUpdate builds from the SET clause.
RECURSIVE BuildUpdates(_, _)
BuildUpdates(updates, sets) ==
    IF sets = <<>> THEN updates
    ELSE LET key == Head(sets).key
             val == parseValue(Head(sets).lit)
             at == IndexOf([i \in 1..Len(updates) |-> updates[i].key], key)
         IN BuildUpdates(IF at > 0 THEN [updates EXCEPT ![at] = Pair(key, val)]
                         ELSE Append(updates, Pair(key, val)),
                         Tail(sets))

\* handleUpdate(cmd): [d, err, ret, out]
handleUpdate(d, cmd) ==
    IF ~cmd.matches THEN [d |-> d, err |-> "syntax", ret |-> 0, out |-> <<>>]
    ELSE IF ~HasTable(d, cmd.table) THEN [d |-> d, err |-> "notfound", ret |-> 0, out |-> <<>>]
    ELSE LET w == parseWhere(cmd.where)
             r == Table_update(d.tables[cmd.table], w.where, BuildUpdates(<<>>, cmd.sets))
         IN IF w.err # "none" THEN [d |-> d, err |-> w.err, ret |-> 0, out |-> <<>>]
            ELSE IF r.err # "none"
            THEN [d |-> [d EXCEPT !.tables[cmd.table] = r.t], err |-> r.err, ret |-> 0, out |-> <<>>]
            ELSE [d |-> Database_save([d EXCEPT !.tables[cmd.table] = r.t]),
                  err |-> "none", ret |-> r.ret, out |-> <<>>]

\* A variant of handleDelete that takes a statement without WHERE clause as
\* one with the empty predicate.
handleDelete_WhereOptional(d, cmd) ==
    IF ~HasTable(d, cmd.table) THEN [d |-> d, err |-> "notfound", ret |-> 0, out |-> <<>>]
    ELSE LET w == IF cmd.matches THEN parseWhere(cmd.where) ELSE [where |-> <<>>, err |-> "none"]
             r == Table_delete(d.tables[cmd.table], w.where)
         IN IF w.err # "none" THEN [d |-> d, err |-> w.err, ret |-> 0, out |-> <<>>]
            ELSE [d |-> Database_save([d EXCEPT !.tables[cmd.table] = r.t]),
                  err |-> "none", ret |-> r.ret, out |-> <<>>]

\* handleDelete(cmd): [d, err, ret, out]
handleDelete(d, cmd) ==
    IF ~cmd.matches THEN [d |-> d, err |-> "syntax", ret |-> 0, out |-> <<>>]
    ELSE IF ~HasTable(d, cmd.table) THEN [d |-> d, err |-> "notfound", ret |-> 0, out |-> <<>>]
    ELSE LET w == parseWhere(cmd.where)
             r == Table_delete(d.tables[cmd.table], w.where)
         IN IF w.err # "none" THEN [d |-> d, err |-> w.err, ret |-> 0, out |-> <<>>]
            ELSE [d |-> Database_save([d EXCEPT !.tables[cmd.table] = r.t]),
                  err |-> "none", ret |-> r.ret, out |-> <<>>]

(***************************************************************************)
(* JOIN.  A name with an optional qualifier ("t.col" or "col") is the     *)
(* sequence of its dot-separated parts; a field of a joined or projected  *)
(* row is named <<alias, column>> (<<"", column>> for a bare name).  A    *)
(* row that may be null is a sequence of at most one row object.           *)
(***************************************************************************)
\* The text of a name given by its dot-separated parts.
RECURSIVE JoinDots(_)
JoinDots(parts) ==
    IF Len(parts) = 1 THEN parts[1]
    ELSE parts[1] \o "." \o JoinDots(Tail(parts))

\* parseJoinKey(key, defaultTable): a key that does not split into exactly
\* two parts is taken whole as the column
parseJoinKey(key, defaultTable) ==
    IF Len(key) = 2 THEN [table |-> key[1], column |-> key[2]]
    ELSE [table |-> defaultTable, column |-> JoinDots(key)]

\* The fields `for (const col in row)` visits.
OwnFields(row) == {c \in DOMAIN row : row[c] # Undef}

\* createJoinedRow(row1, row2, table1Alias, table2Alias)
createJoinedRow(row1, row2, table1Alias, table2Alias) ==
    LET f1 == IF row1 # <<>> THEN {<<table1Alias, c>> : c \in OwnFields(row1[1])}
              ELSE {<<table1Alias, "*">>}
        f2 == IF row2 # <<>> THEN {<<table2Alias, c>> : c \in OwnFields(row2[1])}
              ELSE {<<table2Alias, "*">>}
    IN [f \in f1 \cup f2 |->
          IF f \in f2 THEN (IF row2 # <<>> THEN row2[1][f[2]] ELSE Null)
          ELSE (IF row1 # <<>> THEN row1[1][f[2]] ELSE Null)]

\* The hash map built over the rows of the smaller table: key value -> the
\* positions of the rows holding it, in row order.
RECURSIVE BuildHashMap(_, _, _, _)
BuildHashMap(hashMap, rows, hashKey, i) ==
    IF i > Len(rows) THEN hashMap
    ELSE LET keyValue == Get(rows[i], hashKey)
         IN IF IsNullish(keyValue) THEN BuildHashMap(hashMap, rows, hashKey, i + 1)
            ELSE BuildHashMap(
                    MapSet(hashMap, keyValue,
                           Append(IF MapHas(hashMap, keyValue) THEN hashMap[keyValue] ELSE <<>>, i)),
                    rows, hashKey, i + 1)

\* hashMap.get(keyValue), empty when the map lacks the key
Probe(hashMap, keyValue) == IF MapHas(hashMap, keyValue) THEN hashMap[keyValue] ELSE <<>>

\* The positions j of rows whose field col is strictly equal to keyValue
\* (the linear scan `row1[key1.column] === row2[key2.column]`).
ScanMatches(rows, col, keyValue) ==
    FilterSeq([j \in 1..Len(rows) |-> j],
              {j \in 1..Len(rows) : StrictEq(Get(rows[j], col), keyValue)})

\* A variant of the hash key that is the first table's key column whichever
\* table the hash map is built from.
HashKey_AlwaysKey1(rows1, rows2, key1, key2) == key1.column

\* Which table the hash map is built from.
IsTable1Smaller(rows1, rows2) == Len(rows1) <= Len(rows2)

\* The column the hash map is keyed by.
HashKey(rows1, rows2, key1, key2) ==
    IF IsTable1Smaller(rows1, rows2) THEN key1.column ELSE key2.column

\* The column read from the rows of the other table.
LookupKey(rows1, rows2, key1, key2) ==
    IF IsTable1Smaller(rows1, rows2) THEN key2.column ELSE key1.column

\* The INNER branch: for each row of the larger table, a joined row per row
\* of the smaller table the hash map holds under its key.
RECURSIVE InnerJoin(_, _, _, _, _, _, _)
InnerJoin(rows1, rows2, hashMap, lookupKey, a1, a2, i) ==
    LET t1s == IsTable1Smaller(rows1, rows2)
        largerRows == IF t1s THEN rows2 ELSE rows1
        smallerRows == IF t1s THEN rows1 ELSE rows2
    IN IF i > Len(largerRows) THEN <<>>
       ELSE LET matching == Probe(hashMap, Get(largerRows[i], lookupKey))
            IN [m \in 1..Len(matching) |->
                   IF t1s
                   THEN createJoinedRow(<<smallerRows[matching[m]]>>, <<largerRows[i]>>, a1, a2)
                   ELSE createJoinedRow(<<largerRows[i]>>, <<smallerRows[matching[m]]>>, a1, a2)]
               \o InnerJoin(rows1, rows2, hashMap, lookupKey, a1, a2, i + 1)

\* A lookup that takes the hash map when table 1 is the build side and scans
\* table 2 otherwise.
LeftLookup_HashOnBuildSide(hashMap, keyValue, t1s) ==
    IF MapHas(hashMap, keyValue) /\ t1s THEN "hash"
    ELSE IF ~t1s THEN "scan"
    ELSE "none"

\* How the LEFT branch looks for the matches of a row of table 1 with this
\* key: in the hash map ("hash"), by a scan of table 2 ("scan"), or not at
\* all ("none"); t1s is isTable1Smaller.
LeftLookup(hashMap, keyValue, t1s) ==
    IF MapHas(hashMap, keyValue) /\ ~t1s THEN "hash"
    ELSE IF t1s THEN "scan"
    ELSE "none"

\* The LEFT branch: the matches of a row of table 1 come from the hash map
\* when it was built from table 2, from a scan of table 2 otherwise.
RECURSIVE LeftJoin(_, _, _, _, _, _, _, _)
LeftJoin(rows1, rows2, hashMap, key1, key2, a1, a2, i) ==
    IF i > Len(rows1) THEN <<>>
    ELSE LET t1s == IsTable1Smaller(rows1, rows2)
             keyValue == Get(rows1[i], key1.column)
             lookup == LeftLookup(hashMap, keyValue, t1s)
             matching == IF lookup = "hash" THEN hashMap[keyValue]
                         ELSE IF lookup = "scan" THEN ScanMatches(rows2, key2.column, keyValue)
                         ELSE <<>>
         IN (IF matching = <<>>
             THEN <<createJoinedRow(<<rows1[i]>>, <<>>, a1, a2)>>
             ELSE [m \in 1..Len(matching) |->
                      createJoinedRow(<<rows1[i]>>, <<rows2[matching[m]]>>, a1, a2)])
            \o LeftJoin(rows1, rows2, hashMap, key1, key2, a1, a2, i + 1)

\* The RIGHT branch, over the rows of table 2.
RECURSIVE RightJoin(_, _, _, _, _, _, _, _)
RightJoin(rows1, rows2, hashMap, key1, key2, a1, a2, i) ==
    IF i > Len(rows2) THEN <<>>
    ELSE LET t1s == IsTable1Smaller(rows1, rows2)
             keyValue == Get(rows2[i], key2.column)
             matching == IF MapHas(hashMap, keyValue) /\ t1s THEN hashMap[keyValue]
                         ELSE IF ~t1s THEN ScanMatches(rows1, key1.column, keyValue)
                         ELSE <<>>
         IN (IF matching = <<>>
             THEN <<createJoinedRow(<<>>, <<rows2[i]>>, a1, a2)>>
             ELSE [m \in 1..Len(matching) |->
                      createJoinedRow(<<rows1[matching[m]]>>, <<rows2[i]>>, a1, a2)])
            \o RightJoin(rows1, rows2, hashMap, key1, key2, a1, a2, i + 1)

\* The hash map handleJoin builds: over the rows of the smaller table, keyed
\* by hashKey.
HashMapOf(rows1, rows2, key1, key2) ==
    BuildHashMap(EmptyMap, IF IsTable1Smaller(rows1, rows2) THEN rows1 ELSE rows2,
                 HashKey(rows1, rows2, key1, key2), 1)

\* The joined rows before the WHERE filter and the projection.
JoinedRows(rows1, rows2, joinType, key1, key2, a1, a2) ==
    LET hashMap == HashMapOf(rows1, rows2, key1, key2)
    IN CASE joinType = "INNER" ->
              InnerJoin(rows1, rows2, hashMap, LookupKey(rows1, rows2, key1, key2), a1, a2, 1)
         [] joinType = "LEFT" -> LeftJoin(rows1, rows2, hashMap, key1, key2, a1, a2, 1)
         [] joinType = "RIGHT" -> RightJoin(rows1, rows2, hashMap, key1, key2, a1, a2, 1)
         [] OTHER -> <<>>

\* row[name] of a joined row
JoinedField(row, f) == IF f \in DOMAIN row THEN row[f] ELSE Undef

\* row[name] of a joined row for a name written with dots: the field whose
\* text `alias.column` is the whole name.
DottedField(row, parts) ==
    LET hits == {f \in DOMAIN row : f[1] \o "." \o f[2] = JoinDots(parts)}
    IN IF hits = {} THEN Undef ELSE row[CHOOSE f \in hits : TRUE]

\* filterJoinedRows(rows, whereClause, table1Alias, table2Alias), for a
\* clause with one "=": key is the name left of it
filterJoinedRows(rows, clause, a1, a2) ==
    LET val == parseValue(clause.lit)
        keep(row) ==
            IF Len(clause.key) >= 2
            THEN StrictEq(DottedField(row, clause.key), val)
            ELSE \/ StrictEq(JoinedField(row, <<a1, clause.key[1]>>), val)
                 \/ StrictEq(JoinedField(row, <<a2, clause.key[1]>>), val)
    IN FilterSeq(rows, {row \in SeqToSet(rows) : keep(row)})

\* The projection of one joined row on the selected columns: a field the
\* assignment leaves undefined is kept out.
ProjectJoined(row, selectedCols, a1, a2) ==
    LET value(col) ==
            IF Len(col) >= 2 THEN DottedField(row, col)
            ELSE IF JoinedField(row, <<a1, col[1]>>) # Undef
                 THEN JoinedField(row, <<a1, col[1]>>)
                 ELSE JoinedField(row, <<a2, col[1]>>)
        name(col) == IF Len(col) >= 2 THEN <<col[1], JoinDots(Tail(col))>> ELSE <<"", col[1]>>
        kept == {i \in 1..Len(selectedCols) : value(selectedCols[i]) # Undef}
    IN [f \in {name(selectedCols[i]) : i \in kept} |->
          value(selectedCols[CHOOSE i \in kept :
                    name(selectedCols[i]) = f
                    /\ \A j \in kept : name(selectedCols[j]) = f => j <= i])]

\* What a SELECT returns: the rows, and their number as ret.
Returned(d, rows) == [d |-> d, err |-> "none", ret |-> Len(rows), out |-> rows]

\* handleJoin(cmd): [d, err, ret, out], out the rows returned
handleJoin(d, cmd) ==
    IF ~cmd.matches THEN [d |-> d, err |-> "syntax", ret |-> 0, out |-> <<>>]
    ELSE IF ~HasTable(d, cmd.table1) \/ ~HasTable(d, cmd.table2)
    THEN [d |-> d, err |-> "notfound", ret |-> 0, out |-> <<>>]
    ELSE LET a1 == IF cmd.alias1 = "" THEN cmd.table1 ELSE cmd.alias1
             a2 == IF cmd.alias2 = "" THEN cmd.table2 ELSE cmd.alias2
             key1 == parseJoinKey(cmd.joinKey1, a1)
             key2 == parseJoinKey(cmd.joinKey2, a2)
             rows1 == RowObjects(d.tables[cmd.table1])
             rows2 == RowObjects(d.tables[cmd.table2])
             joinedRows == JoinedRows(rows1, rows2, cmd.joinType, key1, key2, a1, a2)
         IN IF cmd.hasWhere /\ cmd.where.eqs # 1 THEN [d |-> d, err |-> "where", ret |-> 0, out |-> <<>>]
            ELSE LET filteredRows == IF cmd.hasWhere
                                     THEN filterJoinedRows(joinedRows, cmd.where, a1, a2)
                                     ELSE joinedRows
                 IN Returned(d, IF cmd.star THEN filteredRows
                                ELSE [i \in 1..Len(filteredRows) |->
                                         ProjectJoined(filteredRows[i], cmd.selectCols, a1, a2)])

\* The row objects a query of table t returned.
RowsOf(t, refs) == [i \in 1..Len(refs) |-> t.heap[refs[i]]]

\* A WHERE clause of SELECT as text: kind is the operator the clause holds
\* ("between", "ge", "le", "gt", "lt", or "eq" when it holds none of them),
\* key the name left of it, lit (and lit2 for BETWEEN) the literals.
SelectClause(kind, key, eqs, lit, lit2) ==
    [kind |-> kind, key |-> key, eqs |-> eqs, lit |-> lit, lit2 |-> lit2]

\* executeWhereClause(table, clause): [rows, err]
executeWhereClause(table, clause) ==
    CASE clause.kind = "between" ->
            [rows |-> Table_selectBetween(table, clause.key,
                                          parseValue(clause.lit), parseValue(clause.lit2)),
             err |-> "none"]
      [] clause.kind = "ge" ->
            [rows |-> Table_selectGreaterThanOrEqual(table, clause.key, parseValue(clause.lit)),
             err |-> "none"]
      [] clause.kind = "le" ->
            [rows |-> Table_selectLessThanOrEqual(table, clause.key, parseValue(clause.lit)),
             err |-> "none"]
      [] clause.kind = "gt" ->
            [rows |-> Table_selectGreaterThan(table, clause.key, parseValue(clause.lit)),
             err |-> "none"]
      [] clause.kind = "lt" ->
            [rows |-> Table_selectLessThan(table, clause.key, parseValue(clause.lit)),
             err |-> "none"]
      [] OTHER ->
            LET w == parseWhere(clause)
            IN IF w.err # "none" THEN [rows |-> <<>>, err |-> w.err]
               ELSE [rows |-> Table_select(table, w.where), err |-> "none"]

\* handleSelect(cmd): [d, err, ret, out], out the rows returned
handleSelect(d, cmd) ==
    IF cmd.join THEN handleJoin(d, cmd)
    ELSE IF ~cmd.matches THEN [d |-> d, err |-> "syntax", ret |-> 0, out |-> <<>>]
    ELSE IF ~HasTable(d, cmd.table) THEN [d |-> d, err |-> "notfound", ret |-> 0, out |-> <<>>]
    ELSE LET table == d.tables[cmd.table]
             r == IF cmd.hasWhere THEN executeWhereClause(table, cmd.where)
                  ELSE [rows |-> Table_select(table, <<>>), err |-> "none"]
             rows == RowsOf(table, r.rows)
         IN IF r.err # "none" THEN [d |-> d, err |-> r.err, ret |-> 0, out |-> <<>>]
            ELSE Returned(d, IF cmd.star THEN rows
                             ELSE [i \in 1..Len(rows) |->
                                      [c \in SeqToSet(cmd.selectCols) |-> Get(rows[i], c)]])

\* execute(command): [d, err, ret, out]; ret is the count a statement
\* reports, out the rows a SELECT returns
execute(d, cmd) ==
    CASE cmd.kind = "CREATE TABLE" -> handleCreateTable(d, cmd)
      [] cmd.kind = "INSERT INTO" -> handleInsert(d, cmd)
      [] cmd.kind = "SELECT" -> handleSelect(d, cmd)
      [] cmd.kind = "UPDATE" -> handleUpdate(d, cmd)
      [] cmd.kind = "DELETE FROM" -> handleDelete(d, cmd)
      [] OTHER -> [d |-> d, err |-> "unknown", ret |-> 0, out |-> <<>>]

(***************************************************************************)
(* The HTTP server (server/index.ts) and its key store (apiKeyStore.ts).  *)
(* A token is a number, 0 for the empty text; the key store is the Map of *)
(* stored keys in insertion order and the file it was last saved to (the  *)
(* creation time of a key is left out).  hits is the rate limiter's count *)
(* of requests in the current window.                                      *)
(***************************************************************************)
\* hash(token): the HMAC-SHA256 digest of the token under the fixed salt;
\* distinct tokens have distinct digests.
Hash(token) == [hmac |-> "pesadb_secret_salt", of |-> token]

StoredKey(id, token, role) == [id |-> id, hashed |-> Hash(token), role |-> role]

\* The server-side state beside the database: an empty key store with no
\* file, and a rate limiter that has counted no request.
Server == [keys |-> <<>>, file |-> "nofile", hits |-> 0]

\* The position of the key with this id in the Map, 0 when it holds none.
KeyIndex(keys, id) ==
    IF \E i \in 1..Len(keys) : keys[i].id = id
    THEN CHOOSE i \in 1..Len(keys) : keys[i].id = id
    ELSE 0

\* ApiKeyStore.save()
ApiKeyStore_save(s) == [s EXCEPT !.file = s.keys]

\* ApiKeyStore.create(role), id and token being the random bytes drawn
ApiKeyStore_create(s, id, token, role) ==
    LET i == KeyIndex(s.keys, id)
        stored == StoredKey(id, token, role)
    IN ApiKeyStore_save([s EXCEPT !.keys = IF i = 0 THEN Append(@, stored)
                                           ELSE [@ EXCEPT ![i] = stored]])

\* A variant of revoke that reports the key removed and leaves it stored.
ApiKeyStore_revoke_KeepsKey(s, id) ==
    [s |-> ApiKeyStore_save(s), ok |-> KeyIndex(s.keys, id) # 0]

\* ApiKeyStore.revoke(id): [s, ok]
ApiKeyStore_revoke(s, id) ==
    LET i == KeyIndex(s.keys, id)
    IN IF i = 0 THEN [s |-> s, ok |-> FALSE]
       ELSE [s |-> ApiKeyStore_save([s EXCEPT !.keys = RemoveAt(@, i)]), ok |-> TRUE]

\* ApiKeyStore.validate(token): the role of the first key with the token's
\* digest, "null" when there is none
ApiKeyStore_validate(s, token) ==
    LET found == {i \in 1..Len(s.keys) : s.keys[i].hashed = Hash(token)}
    IN IF found = {} THEN "null"
       ELSE s.keys[CHOOSE i \in found : \A j \in found : i <= j].role

\* The routes of the server.
GetTransactions == "GET /api/transactions"

PostTransaction == "POST /api/transactions"

DeleteTransaction == "DELETE /api/transactions/:id"

PostApiKey == "POST /admin/api-keys"

GetApiKeys == "GET /admin/api-keys"

DeleteApiKey == "DELETE /admin/api-keys/:id"

\* The routes declared with requireRole('admin').
AdminRoutes == {PostApiKey, GetApiKeys, DeleteApiKey, DeleteTransaction}

\* The columns of the transactions table the server creates.
TransactionColumns ==
    <<Column("id", "string", TRUE, FALSE, FALSE),
      Column("amount", "number", FALSE, FALSE, FALSE),
      Column("merchant", "string", FALSE, FALSE, FALSE),
      Column("status", "string", FALSE, FALSE, FALSE),
      Column("timestamp", "string", FALSE, FALSE, FALSE)>>

\* The token authenticateApiKey reads: the x-api-key header, or else the
\* text after "Bearer " of the authorization header; 0 when both are absent
\* or empty.
TokenOf(req) ==
    IF req.xApiKey # 0 THEN req.xApiKey
    ELSE IF req.authorization.scheme = "Bearer" THEN req.authorization.token
    ELSE 0

\* A variant of authenticateApiKey that lets a request with an unknown key
\* pass with the role 'user'.
authenticateApiKey_Lenient(s, req) ==
    LET token == TokenOf(req)
        role == ApiKeyStore_validate(s, token)
    IN IF token = 0 THEN [status |-> 401, role |-> "null"]
       ELSE IF role = "null" THEN [status |-> 0, role |-> "user"]
       ELSE [status |-> 0, role |-> role]

\* authenticateApiKey: [status, role], status 0 when it calls next()
authenticateApiKey(s, req) ==
    LET token == TokenOf(req)
        role == ApiKeyStore_validate(s, token)
    IN IF token = 0 THEN [status |-> 401, role |-> "null"]
       ELSE IF role = "null" THEN [status |-> 403, role |-> "null"]
       ELSE [status |-> 0, role |-> role]

\* requireRole(minRole) on a request with the role authenticateApiKey
\* attached: the status, 0 when it calls next()
requireRole(minRole, role) ==
    IF role = "null" THEN 401
    ELSE IF minRole = "admin" /\ role # "admin" THEN 403
    ELSE 0

\* The texts of a request.  Str(0) is the empty text and Str(1), Str(2), ...
\* are "s1", "s2", ...; the texts below are the names of the three statuses,
\* the dates "9000-01-01", "9000-01-02", ... and the decimal texts "1", "2",
\* ... of the numbers.
EmptyText == Str(0)

Failed == Str(MaxStr + 1)

Pending == Str(MaxStr + 2)

Success == Str(MaxStr + 3)

IsoText(k) == Str(MaxStr + 3 + k)

NumericText(n) == Str(MaxStr + 3 + MaxIso + n)

\* The position of the first character of a text among the characters: the
\* empty text, then a digit below 9, then the 9 of the dates, then a capital
\* letter, then the s of "s1".
TextClass(x) ==
    IF x.v = 0 THEN 0
    ELSE IF x.v > MaxStr + 3 + MaxIso THEN 1
    ELSE IF x.v > MaxStr + 3 THEN 2
    ELSE IF x.v > MaxStr THEN 3
    ELSE 4

\* a <= b on two texts, by UTF-16 code units.
TextLeq(a, b) ==
    \/ TextClass(a) < TextClass(b)
    \/ TextClass(a) = TextClass(b) /\ a.v <= b.v

\* isString(): typeof value === 'string'
isString(x) == TypeOf(x) = "string"

\* notEmpty(): the text of the value is not the empty text; a missing value
\* has the empty text.
notEmpty(x) == x # EmptyText /\ x # Undef

\* isNumeric() on the text of the value: a number, or a text of digits.  The
\* text of a missing value is empty.
isNumeric(x) ==
    \/ TypeOf(x) = "number"
    \/ TypeOf(x) = "string" /\ TextClass(x) = 1

\* isISO8601() on the text of the value; the text of a number of the model
\* has fewer than the four digits of a year.
isISO8601(x) == TypeOf(x) = "string" /\ TextClass(x) = 2

\* isIn(['Success', 'Pending', 'Failed']) on the text of the value
isInStatuses(x) == x \in {Success, Pending, Failed}

\* optional(): the validators that follow are skipped for a missing value.
optional(x, valid) == x = Undef \/ valid

\* Number(amount) of an amount that passed isNumeric()
NumberOf(x) ==
    IF TypeOf(x) = "number" THEN x ELSE Num(x.v - (MaxStr + 3 + MaxIso))

\* The express-validator chain of the route: whether handleValidation passes.
Validates(req) ==
    CASE req.route = GetTransactions ->
            /\ optional(req.query.status, isString(req.query.status))
            /\ optional(req.query.from, isISO8601(req.query.from))
            /\ optional(req.query.to, isISO8601(req.query.to))
      [] req.route = PostApiKey -> req.body.role \in {"admin", "user"}
      [] req.route = PostTransaction ->
            /\ isString(req.body.id) /\ notEmpty(req.body.id)
            /\ isNumeric(req.body.amount)
            /\ isString(req.body.merchant) /\ notEmpty(req.body.merchant)
            /\ isInStatuses(req.body.status)
            /\ isISO8601(req.body.timestamp)
      [] req.route = DeleteTransaction ->
            isString(req.body.id) /\ notEmpty(req.body.id)
      [] req.route = DeleteApiKey -> req.body.key # 0
      [] OTHER -> TRUE

\* The answer of a request: the server state and database after it, the
\* stage that answered, the status and the rows sent.
Answer(s, d, stage, status, rows) ==
    [api |-> s, d |-> d, stage |-> stage, status |-> status, out |-> rows]

\* The handler of the route, run after the middleware of the route passed;
\* id and token are the random bytes a key creation draws.  req.body holds
\* the fields of the JSON body and the route parameters (id of a transaction,
\* key for the id of an API key); req.query holds the query parameters, Undef
\* for one the request does not carry.
RouteHandler(s, d, req, id, token) ==
    LET t == d.tables["transactions"]
    IN CASE req.route = GetTransactions ->
              LET q == req.query
                  all == RowObjects(t)
                  byStatus == IF q.status \in {Undef, EmptyText} THEN all
                              ELSE SelectSeq(all, LAMBDA r : StrictEq(r.status, q.status))
                  byFrom == IF q.from = Undef THEN byStatus
                            ELSE SelectSeq(byStatus, LAMBDA r : TextLeq(q.from, r.timestamp))
                  byTo == IF q.to = Undef THEN byFrom
                          ELSE SelectSeq(byFrom, LAMBDA r : TextLeq(r.timestamp, q.to))
              IN Answer(s, d, "handler", 200, byTo)
         [] req.route = PostTransaction ->
              LET b == req.body
                  row == [id |-> b.id, amount |-> NumberOf(b.amount), merchant |-> b.merchant,
                          status |-> b.status, timestamp |-> b.timestamp]
                  r == Table_insert(t, row)
              IN IF r.err # "none"
                 THEN Answer(s, [d EXCEPT !.tables["transactions"] = r.t], "handler", 500, <<>>)
                 ELSE Answer(s, Database_save([d EXCEPT !.tables["transactions"] = r.t]),
                             "handler", 201, <<>>)
         [] req.route = DeleteTransaction ->
              LET r == Table_delete(t, <<Pair("id", req.body.id)>>)
              IN Answer(s, Database_save([d EXCEPT !.tables["transactions"] = r.t]),
                        "handler", 200, <<>>)
         [] req.route = PostApiKey ->
              Answer(ApiKeyStore_create(s, id, token, req.body.role), d, "handler", 201, <<>>)
         [] req.route = GetApiKeys ->
              Answer(s, d, "handler", 200, <<>>)
         [] req.route = DeleteApiKey ->
              LET r == ApiKeyStore_revoke(s, req.body.key)
              IN Answer(r.s, d, "handler", IF r.ok THEN 200 ELSE 404, <<>>)

\* The middleware of the route and its handler: authenticateApiKey, then
\* requireRole('admin') on the admin routes, then the validators.
Route(s, d, req, id, token) ==
    LET auth == authenticateApiKey(s, req)
        role == IF req.route \in AdminRoutes THEN requireRole("admin", auth.role) ELSE 0
    IN IF auth.status # 0 THEN Answer(s, d, "authenticate", auth.status, <<>>)
       ELSE IF role # 0 THEN Answer(s, d, "role", role, <<>>)
       ELSE IF ~Validates(req) THEN Answer(s, d, "validation", 400, <<>>)
       ELSE RouteHandler(s, d, req, id, token)

\* The application: the JSON body parser, whose error goes to the generic
\* error handler, then the rate limiter, then the route.
App(s, d, req, id, token) ==
    LET counted == [s EXCEPT !.hits = Min2(@ + 1, RateLimitMax + 1)]
    IN IF ~req.bodyOk THEN Answer(s, d, "parser", 500, <<>>)
       ELSE IF counted.hits > RateLimitMax THEN Answer(counted, d, "limiter", 429, <<>>)
       ELSE Route(counted, d, req, id, token)

(***************************************************************************)
(* The table specification: one Table driven through insert, update and   *)
(* delete with every input of the bounded sets.                            *)
(***************************************************************************)
\* tbl: the Table object; last: the last call made on it, [op, err, ret] with
\* err = "none" when it returned; mutated: update or delete has been called.
\* db: the Database the SQL statements run on; out: the rows the last
\* statement returned; api: the key store and rate limiter of the server.
\* tree: a BTreeIndex driven on its own; history: the calls made so far that
\* the properties of the key store and of the range index refer to.
VARIABLES tbl, last, mutated, db, out, api, tree, history

vars == <<tbl, last, mutated, db, out, api, tree, history>>

\* The schema of the table: id string pk, amount number (nullable).
TableColumns ==
    <<Column("id", "string", TRUE, FALSE, FALSE),
      Column("amount", "number", FALSE, FALSE, TRUE)>>

Nums == {Num(n) : n \in 1..MaxNum}

Strs == {Str(n) : n \in 1..MaxStr}

\* Rows handed to insert: well-typed ones, and ones with a value of the wrong
\* type or a missing value.
InsertRows ==
    [id : Strs \cup {Num(1), Undef}, amount : Nums \cup {Str(1), Undef}]

\* Predicates handed to select, update and delete.
Wheres ==
    {<<>>} \cup {<<Pair("id", x)>> : x \in Strs} \cup {<<Pair("amount", x)>> : x \in Nums}

\* Change sets handed to update.
Updates ==
    {<<Pair("id", x)>> : x \in Strs} \cup {<<Pair("amount", x)>> : x \in Nums \cup {Str(1)}}

Init ==
    /\ tbl = Table(TableColumns)
    /\ last = [op |-> "new", err |-> "none", ret |-> 0]
    /\ mutated = FALSE
    /\ db = Database
    /\ out = <<>>
    /\ api = Server
    /\ tree = BTreeIndex
    /\ history = <<>>

\* table.insert(row)
Insert(row) ==
    \E r \in {Table_insert(tbl, row)} :
       /\ Len(r.t.heap) <= MaxInserts
       /\ tbl' = r.t
       /\ last' = [op |-> "insert", err |-> r.err, ret |-> 0]
       /\ out' = <<>>
       /\ UNCHANGED <<mutated, db, api, tree, history>>

\* table.update(where, updates)
Update(where, updates) ==
    \E r \in {Table_update(tbl, where, updates)} :
       /\ tbl' = r.t
       /\ last' = [op |-> "update", err |-> r.err,
                   ret |-> IF r.err = "none" THEN r.ret ELSE 0]
       /\ mutated' = TRUE
       /\ out' = <<>>
       /\ UNCHANGED <<db, api, tree, history>>

\* table.delete(where)
Delete(where) ==
    \E r \in {Table_delete(tbl, where)} :
       /\ tbl' = r.t
       /\ last' = [op |-> "delete", err |-> r.err, ret |-> r.ret]
       /\ mutated' = TRUE
       /\ out' = <<>>
       /\ UNCHANGED <<db, api, tree, history>>

Next ==
    \/ \E row \in InsertRows : Insert(row)
    \/ \E where \in Wheres, updates \in Updates : Update(where, updates)
    \/ \E where \in Wheres : Delete(where)

Spec == Init /\ [][Next]_vars

\* table.select({}): out holds the row objects returned, in the order returned;
\* last.ret counts the calls of select({}) made in a row, up to two.
SelectAll ==
    \E r \in {Table_selectCall(tbl, <<>>)} :
       /\ tbl' = r.t
       /\ last' = [op |-> "select", err |-> "none",
                   ret |-> IF last.op = "select" THEN 2 ELSE 1]
       /\ out' = [i \in 1..Len(r.ret) |-> r.t.heap[r.ret[i]]]
       /\ UNCHANGED <<mutated, db, api, tree, history>>

\* The table under inserts, updates, deletes and full selects.
NextSelect ==
    \/ \E row \in InsertRows : Insert(row)
    \/ \E where \in Wheres, updates \in Updates : Update(where, updates)
    \/ \E where \in Wheres : Delete(where)
    \/ SelectAll

SpecSelect == Init /\ [][NextSelect]_vars

(***************************************************************************)
(* Properties of the table specification.                                  *)
(***************************************************************************)
\* The rows of the row store.
Stored(t) == SeqToSet(t.rows)

\* Every row object the table was ever given.
AllRows(t) == 1..Len(t.heap)

\* Pairs of bounds lo <= hi.
BoundPairs == {p \in Nums \X Nums : p[1].v <= p[2].v}

\* The linear scan `lo <= row[col] <= hi` of the row store.
ScanBetween(t, col, lo, hi) ==
    {r \in Stored(t) : JsGE(Field(t, r, col), lo) /\ JsLE(Field(t, r, col), hi)}

\* C1: after successful inserts only, selectBetween(col, lo, hi) on a number
\* column returns exactly the stored rows r with lo <= r[col] <= hi.
C1_RangeMatchesScan ==
    ~mutated =>
        \A col \in SeqToSet(tbl.btreeCols) : \A p \in BoundPairs :
            SeqToSet(Table_selectBetween(tbl, col, p[1], p[2]))
                = ScanBetween(tbl, col, p[1], p[2])

\* The linear scan of the row store with the comparison of a range operator.
ScanCompare(t, col, op, v) ==
    {r \in Stored(t) :
        CASE op = ">" -> JsGT(Field(t, r, col), v)
          [] op = ">=" -> JsGE(Field(t, r, col), v)
          [] op = "<" -> JsLT(Field(t, r, col), v)
          [] op = "<=" -> JsLE(Field(t, r, col), v)}

\* C24: after successful inserts only, each of selectGreaterThan,
\* selectGreaterThanOrEqual, selectLessThan and selectLessThanOrEqual on a
\* number column returns exactly the rows the linear scan with >, >=, < and
\* <= returns.
C24_RangeOperatorsMatchScan ==
    ~mutated =>
        \A col \in SeqToSet(tbl.btreeCols) : \A v \in Nums :
            /\ SeqToSet(Table_selectGreaterThan(tbl, col, v)) = ScanCompare(tbl, col, ">", v)
            /\ SeqToSet(Table_selectGreaterThanOrEqual(tbl, col, v))
                  = ScanCompare(tbl, col, ">=", v)
            /\ SeqToSet(Table_selectLessThan(tbl, col, v)) = ScanCompare(tbl, col, "<", v)
            /\ SeqToSet(Table_selectLessThanOrEqual(tbl, col, v))
                  = ScanCompare(tbl, col, "<=", v)

\* C2: no two rows of the row store hold the same non-null value in a
\* primary-key or unique column.
C2_UniqueValues ==
    \A c \in SeqToSet(tbl.indexCols) : \A i, j \in 1..Len(tbl.rows) :
        (i # j /\ ~IsNullish(Field(tbl, tbl.rows[i], c)))
            => Field(tbl, tbl.rows[i], c) # Field(tbl, tbl.rows[j], c)

\* C3: for every row object r and hash-indexed column c with a present value,
\* select({c: r[c]}) contains r if and only if r is in the row store.
C3_IndexConsistency ==
    \A r \in AllRows(tbl) : \A c \in SeqToSet(tbl.indexCols) :
        ~IsNullish(Field(tbl, r, c)) =>
            ((r \in SeqToSet(Table_select(tbl, <<Pair(c, Field(tbl, r, c))>>)))
                <=> (r \in Stored(tbl)))

\* The rows some range query on a number column returns.
RangeReachable(t) ==
    UNION {SeqToSet(Table_selectGreaterThan(t, c, x))
           \cup SeqToSet(Table_selectGreaterThanOrEqual(t, c, x))
           \cup SeqToSet(Table_selectLessThan(t, c, x))
           \cup SeqToSet(Table_selectLessThanOrEqual(t, c, x))
           \cup UNION {SeqToSet(Table_selectBetween(t, c, x, y)) : y \in Nums}
           : c \in SeqToSet(t.btreeCols), x \in Nums}

\* The rows some select on a hash-indexed column returns.
HashReachable(t) ==
    UNION {SeqToSet(Table_select(t, <<Pair(c, x)>>))
           : c \in SeqToSet(t.indexCols), x \in Strs \cup Nums}

\* C4: a row removed by delete is returned by no select on a hash-indexed
\* column and by no range query.
C4_DeletedUnreachable ==
    \A r \in AllRows(tbl) \ Stored(tbl) :
        r \notin HashReachable(tbl) /\ r \notin RangeReachable(tbl)

\* The row store, the fields of its rows and the indices of two table states agree.
SameTable(t1, t2) ==
    /\ t1.rows = t2.rows
    /\ \A r \in Stored(t1) : t1.heap[r] = t2.heap[r]
    /\ t1.indices = t2.indices
    /\ t1.btreeIndices = t2.btreeIndices

\* C6: an insert that fails leaves the row store, the hash indices and the
\* range indices as they were.
C6_FailedInsertUnchanged ==
    [][(last'.op = "insert" /\ last'.err # "none") => SameTable(tbl, tbl')]_vars

\* C6 witness: an insert rejected for a duplicate primary key on a table holding rows.
C6_Witness ==
    last.op = "insert" /\ last.err = "unique" /\ Len(tbl.rows) >= 1

\* C7: after a successful update that changes a row's value in a number column
\* from v to w, selectBetween(col, w, w) returns the row and
\* selectBetween(col, v, v) does not, unless another stored row holds v.
C7_RangeIndexFollowsUpdate ==
    [][(last'.op = "update" /\ last'.err = "none") =>
        \A r \in Stored(tbl) \cap Stored(tbl') : \A c \in SeqToSet(tbl.btreeCols) :
            LET v == Field(tbl, r, c)
                w == Field(tbl', r, c)
            IN (v # w /\ TypeOf(v) = "number" /\ TypeOf(w) = "number") =>
                /\ r \in SeqToSet(Table_selectBetween(tbl', c, w, w))
                /\ (r \in SeqToSet(Table_selectBetween(tbl', c, v, v))
                       => \E r2 \in Stored(tbl') \ {r} : Field(tbl', r2, c) = v)]_vars

\* The stored rows a linear scan of the row store finds matching `where`.
Matching(t, where) == {r \in Stored(t) : Matches(t, r, where)}

\* What a returned update(where, updates) promises, t being the table before
\* the call, t2 the table after it and ret the count returned.
UpdatePost(t, t2, where, updates, ret) ==
    /\ ret = Cardinality(Matching(t, where))
    /\ t2.rows = t.rows
    /\ \A r \in Matching(t, where) : \A i \in 1..Len(updates) :
          Field(t2, r, updates[i].key) = updates[i].val
    /\ \A r \in Stored(t) \ Matching(t, where) : t2.heap[r] = t.heap[r]
    /\ \A r \in Matching(t, where) : \A i \in 1..Len(updates) :
          LET c == updates[i].key
              old == Field(t, r, c)
              new == updates[i].val
          IN (c \in SeqToSet(t.indexCols) /\ old # new /\ ~IsNullish(old)) =>
                /\ r \in SeqToSet(Table_select(t2, <<Pair(c, new)>>))
                /\ r \notin SeqToSet(Table_select(t2, <<Pair(c, old)>>))

\* C12: in every reachable table state, every update(where, updates) that
\* returns has returned the number of rows that matched, left the new values
\* in each of them and every other row unchanged, and moved each row whose
\* primary-key value changed from the old value's bucket to the new one's.
C12_UpdatePostcondition ==
    \A where \in Wheres : \A updates \in Updates :
        \A r \in {Table_update(tbl, where, updates)} :
            r.err = "none" => UpdatePost(tbl, r.t, where, updates, r.ret)

\* What delete(where) promises, t being the table before the call, t2 the
\* table after it and ret the count returned.
DeletePost(t, t2, where, ret) ==
    /\ Stored(t2) = Stored(t) \ Matching(t, where)
    /\ t2.rows = FilterSeq(t.rows, Stored(t) \ Matching(t, where))
    /\ ret = Len(t.rows) - Len(t2.rows)

\* C13: in every reachable table state, delete(where), for the empty
\* predicate too, removes every row that matched, leaves the others in
\* place and returns the number of rows removed.
C13_DeletePostcondition ==
    \A where \in Wheres :
        \A r \in {Table_delete(tbl, where)} : DeletePost(tbl, r.t, where, r.ret)

\* C17: a call of select({}) leaves the row store, the row objects and the
\* indices as they were and returns the row objects of the row store in its
\* order, so that of two calls of select({}) with no other call of the table
\* in between the second returns the rows the first returned, in the same
\* order.
C17_SelectAllRepeatable ==
    [][last'.op = "select" =>
          /\ tbl' = tbl
          /\ out' = RowObjects(tbl)
          /\ last.op = "select" => out' = out]_vars

\* A second select({}) in a row has returned two rows.
C17_Witness == last.op = "select" /\ last.ret = 2 /\ Len(out) = 2

(***************************************************************************)
(* The SQL specification: statements run through SQLParser.execute on a   *)
(* database holding the table                                              *)
(*     CREATE TABLE transactions (id string pk, amount number).            *)
(***************************************************************************)
SqlTable == "transactions"

\* The column definitions of the CREATE TABLE statement.
SqlColsDef ==
    <<[name |-> "id", type |-> "string", pk |-> TRUE, unique |-> FALSE],
      [name |-> "amount", type |-> "number", pk |-> FALSE, unique |-> FALSE]>>

\* CREATE TABLE statements: the table above, one with a type the parser does
\* not support, one that marks two columns as primary key, and one that does
\* not match the statement's pattern.
CreateCmds ==
    {[kind |-> "CREATE TABLE", matches |-> TRUE, table |-> SqlTable, colsDef |-> SqlColsDef],
     [kind |-> "CREATE TABLE", matches |-> TRUE, table |-> SqlTable,
      colsDef |-> <<[name |-> "id", type |-> "string", pk |-> TRUE, unique |-> FALSE],
                    [name |-> "amount", type |-> "number", pk |-> TRUE, unique |-> FALSE]>>],
     [kind |-> "CREATE TABLE", matches |-> TRUE, table |-> SqlTable,
      colsDef |-> <<[name |-> "id", type |-> "text", pk |-> TRUE, unique |-> FALSE]>>],
     [kind |-> "CREATE TABLE", matches |-> FALSE, table |-> SqlTable, colsDef |-> <<>>]}

\* Literals: quoted texts and numerals.
StrToks == {Tok("dq", n) : n \in 1..MaxStr}

NumToks == {Tok("num", n) : n \in 1..MaxNum}

\* INSERT statements: well-typed rows, a numeral for the id, a text for the
\* amount, a row without amount, and more columns than values.
InsertCmds ==
    {[kind |-> "INSERT INTO", matches |-> TRUE, table |-> SqlTable,
      cols |-> <<"id", "amount">>, vals |-> <<i, a>>]
        : i \in StrToks \cup {Tok("num", 1)}, a \in NumToks \cup {Tok("dq", 1)}}
    \cup {[kind |-> "INSERT INTO", matches |-> TRUE, table |-> SqlTable,
           cols |-> <<"id">>, vals |-> <<i>>] : i \in StrToks}
    \cup {[kind |-> "INSERT INTO", matches |-> TRUE, table |-> SqlTable,
           cols |-> <<"id", "amount">>, vals |-> <<Tok("dq", 1)>>]}

\* Conditions `col = literal`, and one with two "=" signs.
SqlClauses ==
    {Clause("id", 1, x) : x \in StrToks} \cup {Clause("amount", 1, x) : x \in NumToks}
    \cup {Clause("id", 2, Tok("dq", 1))}

\* UPDATE statements, with and without the WHERE clause the pattern requires;
\* among them ones that set the amount to a quoted text.
UpdateCmds ==
    {[kind |-> "UPDATE", matches |-> TRUE, table |-> SqlTable,
      sets |-> <<[key |-> k[1], lit |-> k[2]]>>, where |-> w]
        : k \in ({"id"} \X StrToks) \cup ({"amount"} \X NumToks), w \in SqlClauses}
    \cup {[kind |-> "UPDATE", matches |-> TRUE, table |-> SqlTable,
           sets |-> <<[key |-> "amount", lit |-> Tok("dq", 1)]>>,
           where |-> Clause("id", 1, x)] : x \in StrToks}
    \cup {[kind |-> "UPDATE", matches |-> FALSE, table |-> SqlTable,
           sets |-> <<>>, where |-> Clause("id", 1, Tok("dq", 1))]}

\* DELETE statements, with and without the WHERE clause the pattern requires.
DeleteCmds ==
    {[kind |-> "DELETE FROM", matches |-> TRUE, table |-> SqlTable, where |-> w]
        : w \in SqlClauses}
    \cup {[kind |-> "DELETE FROM", matches |-> FALSE, table |-> SqlTable,
           where |-> Clause("id", 1, Tok("dq", 1))]}

\* WHERE clauses of SELECT.
SelectClauses ==
    {SelectClause("eq", "id", 1, x, x) : x \in StrToks}
    \cup {SelectClause(k, "amount", 0, x, x) : k \in {"ge", "le", "gt", "lt"}, x \in NumToks}
    \cup {SelectClause("between", "amount", 0, x, y) : x \in NumToks, y \in NumToks}
    \cup {SelectClause("eq", "id", 2, Tok("dq", 1), Tok("dq", 1))}

\* SELECT statements on one table.
SelectCmds ==
    {[kind |-> "SELECT", join |-> FALSE, matches |-> TRUE, table |-> SqlTable,
      star |-> TRUE, selectCols |-> <<>>, hasWhere |-> TRUE, where |-> w]
        : w \in SelectClauses}
    \cup {[kind |-> "SELECT", join |-> FALSE, matches |-> TRUE, table |-> SqlTable,
           star |-> FALSE, selectCols |-> <<"id">>, hasWhere |-> FALSE,
           where |-> SelectClause("eq", "id", 1, Tok("dq", 1), Tok("dq", 1))]}
    \cup {[kind |-> "SELECT", join |-> FALSE, matches |-> TRUE, table |-> SqlTable,
           star |-> TRUE, selectCols |-> <<>>, hasWhere |-> FALSE,
           where |-> SelectClause("eq", "id", 1, Tok("dq", 1), Tok("dq", 1))]}

InitSQL ==
    /\ tbl = Table(TableColumns)
    /\ last = [op |-> "new", err |-> "none", ret |-> 0]
    /\ mutated = FALSE
    /\ db = Database
    /\ out = <<>>
    /\ api = Server
    /\ tree = BTreeIndex
    /\ history = <<>>

\* The row objects ever given to the tables of database d.
HeapSize(d) ==
    IF HasTable(d, SqlTable) THEN Len(d.tables[SqlTable].heap) ELSE 0

\* parser.execute(cmd)
Execute(cmd) ==
    \E r \in {execute(db, cmd)} :
       /\ HeapSize(r.d) <= MaxInserts
       /\ db' = r.d
       /\ last' = [op |-> cmd.kind, err |-> r.err, ret |-> r.ret]
       /\ out' = r.out
       /\ UNCHANGED <<tbl, mutated, api, tree, history>>

\* Every statement handed to execute: the five kinds and an unknown one.
SqlCmds ==
    CreateCmds \cup InsertCmds \cup SelectCmds \cup UpdateCmds \cup DeleteCmds
    \cup {[kind |-> "DROP TABLE"]}

\* db.dropTable(name)
DropTable(name) ==
    \E r \in {Database_dropTable(db, name)} :
       /\ db' = r.d
       /\ last' = [op |-> "dropTable", err |-> r.err, ret |-> 0]
       /\ out' = <<>>
       /\ UNCHANGED <<tbl, mutated, api, tree, history>>

\* db.load(), as the server calls it when it starts
Load ==
    /\ db' = Database_load(db)
    /\ last' = [op |-> "load", err |-> "none", ret |-> 0]
    /\ out' = <<>>
    /\ UNCHANGED <<tbl, mutated, api, tree, history>>

\* The column lists handed to createTable without the parser: two primary-key
\* columns, the first or the second of them named ''.
DirectColumns ==
    {<<Column("", "string", TRUE, FALSE, FALSE), Column("id", "string", TRUE, FALSE, FALSE)>>,
     <<Column("id", "string", TRUE, FALSE, FALSE), Column("", "string", TRUE, FALSE, FALSE)>>}

\* db.createTable(name, columns)
CreateTable(columns) ==
    \E r \in {Database_createTable(db, SqlTable, columns)} :
       /\ db' = r.d
       /\ last' = [op |-> "createTable", err |-> r.err, ret |-> 0]
       /\ out' = <<>>
       /\ UNCHANGED <<tbl, mutated, api, tree, history>>

NextSQL ==
    \/ \E cmd \in SqlCmds : Execute(cmd)
    \/ \E columns \in DirectColumns : CreateTable(columns)
    \/ DropTable(SqlTable)
    \/ Load

SpecSQL == InitSQL /\ [][NextSQL]_vars

\* The row store, the fields of its rows and the hash indices of two table
\* states agree.
SameRowsAndHash(t1, t2) ==
    /\ t1.rows = t2.rows
    /\ \A r \in Stored(t1) : t1.heap[r] = t2.heap[r]
    /\ t1.indices = t2.indices

\* C5: whenever execute raises an error, the row store, the field values of
\* every row and every hash index of every table are what they were before
\* the call.
C5_ErrorLeavesTablesUnchanged ==
    [][last'.err # "none" =>
         /\ DOMAIN db'.tables = DOMAIN db.tables
         /\ \A name \in DOMAIN db.tables :
                SameRowsAndHash(db.tables[name], db'.tables[name])]_vars

(***************************************************************************)
(* The join specification: two tables A(id string pk, k1 string nullable) *)
(* and B(id string pk, k2 string nullable) filled through Table.insert,   *)
(* and SELECT * FROM A <type> JOIN B ON A.k1 = B.k2 run through execute.   *)
(***************************************************************************)
JoinColumnsA ==
    <<Column("id", "string", TRUE, FALSE, FALSE), Column("k1", "string", FALSE, FALSE, TRUE)>>

JoinColumnsB ==
    <<Column("id", "string", TRUE, FALSE, FALSE), Column("k2", "string", FALSE, FALSE, TRUE)>>

\* The join keys of the rows: a text, or none (the field is absent).
JoinKeys == {Str(n) : n \in 1..MaxKey} \cup {Undef}

JoinTypes == {"INNER", "LEFT", "RIGHT"}

\* SELECT * FROM A <joinType> JOIN B ON A.k1 = B.k2
JoinCmd(joinType) ==
    [kind |-> "SELECT", join |-> TRUE, matches |-> TRUE, star |-> TRUE, selectCols |-> <<>>,
     table1 |-> "A", alias1 |-> "", joinType |-> joinType, table2 |-> "B", alias2 |-> "",
     joinKey1 |-> <<"A", "k1">>, joinKey2 |-> <<"B", "k2">>,
     hasWhere |-> FALSE, where |-> Clause(<<"k1">>, 1, Tok("dq", 1))]

\* SELECT * FROM A <joinType> JOIN B ON B.k2 = A.k1
JoinCmdReversed(joinType) ==
    [JoinCmd(joinType) EXCEPT !.joinKey1 = <<"B", "k2">>, !.joinKey2 = <<"A", "k1">>]

InitJoin ==
    /\ tbl = Table(TableColumns)
    /\ last = [op |-> "new", err |-> "none", ret |-> 0]
    /\ mutated = FALSE
    /\ db = Database_createTable(Database_createTable(Database, "A", JoinColumnsA).d,
                                 "B", JoinColumnsB).d
    /\ out = <<>>
    /\ api = Server
    /\ tree = BTreeIndex
    /\ history = <<>>

\* db.getTable(name).insert(row), the row's id being its rank in the table;
\* key is the value of the join column col (null is not a string, so the
\* insert of a null key fails)
JoinInsert(name, col, key) ==
    \E r \in {Table_insert(db.tables[name],
                           [c \in {"id", col} |->
                               IF c = "id" THEN Str(Len(db.tables[name].heap) + 1) ELSE key])} :
       /\ Len(r.t.rows) <= MaxJoinRows
       /\ db' = [db EXCEPT !.tables[name] = r.t]
       /\ last' = [op |-> "insert", err |-> r.err, ret |-> 0]
       /\ out' = <<>>
       /\ UNCHANGED <<tbl, mutated, api, tree, history>>

InsertA == \E key \in JoinKeys \cup {Null} : JoinInsert("A", "k1", key)

InsertB == \E key \in JoinKeys \cup {Null} : JoinInsert("B", "k2", key)

\* parser.execute of the join statement
Join(joinType) ==
    \E r \in {execute(db, JoinCmd(joinType))} :
       /\ db' = r.d
       /\ last' = [op |-> joinType, err |-> r.err, ret |-> r.ret]
       /\ out' = r.out
       /\ UNCHANGED <<tbl, mutated, api, tree, history>>

\* parser.execute of the join statement with the operands of ON exchanged
JoinReversed(joinType) ==
    \E r \in {execute(db, JoinCmdReversed(joinType))} :
       /\ db' = r.d
       /\ last' = [op |-> "REVERSED", err |-> r.err, ret |-> r.ret]
       /\ out' = r.out
       /\ UNCHANGED <<tbl, mutated, api, tree, history>>

NextJoin ==
    \/ InsertA
    \/ InsertB
    \/ \E joinType \in JoinTypes : Join(joinType)
    \/ \E joinType \in JoinTypes : JoinReversed(joinType)

SpecJoin == InitJoin /\ [][NextJoin]_vars

\* The rows of A and of B, in storage order.
RowsA == RowObjects(db.tables["A"])

RowsB == RowObjects(db.tables["B"])

\* Row i of A and row j of B hold equal, present join keys.
KeyMatch(i, j) ==
    /\ ~IsNullish(Get(RowsA[i], "k1"))
    /\ ~IsNullish(Get(RowsB[j], "k2"))
    /\ StrictEq(Get(RowsA[i], "k1"), Get(RowsB[j], "k2"))

\* The joined row of the pair (row i of A, row j of B).
PairRow(i, j) == createJoinedRow(<<RowsA[i]>>, <<RowsB[j]>>, "A", "B")

\* The row of A alone with a null-padded B side, and the converse.
PaddedA(i) == createJoinedRow(<<RowsA[i]>>, <<>>, "A", "B")

PaddedB(j) == createJoinedRow(<<>>, <<RowsB[j]>>, "A", "B")

\* C8: the INNER JOIN returns exactly one joined row for every pair (a, b)
\* of a row of A and a row of B with equal, present join keys, and no other
\* row, whichever table has fewer rows.
C8_InnerJoinExactPairs ==
    last.op = "INNER" =>
        /\ \A i \in 1..Len(RowsA) : \A j \in 1..Len(RowsB) :
              Count(out, PairRow(i, j)) = IF KeyMatch(i, j) THEN 1 ELSE 0
        /\ \A x \in SeqToSet(out) :
              \E i \in 1..Len(RowsA) : \E j \in 1..Len(RowsB) : x = PairRow(i, j)

\* C8 witness: an INNER JOIN returning two rows when B, the second table,
\* has fewer rows than A.
C8_Witness ==
    last.op = "INNER" /\ Len(out) = 2 /\ Len(RowsB) < Len(RowsA)

\* C9: the LEFT JOIN holds, for every row a of A, one joined row per row of
\* B whose key equals a's, and one row with a null-padded B side exactly
\* when a has no match; it has at least as many rows as A.
C9_LeftJoinRows ==
    last.op = "LEFT" =>
        /\ \A i \in 1..Len(RowsA) :
              /\ \A j \in 1..Len(RowsB) :
                    Count(out, PairRow(i, j)) = IF KeyMatch(i, j) THEN 1 ELSE 0
              /\ Count(out, PaddedA(i))
                    = IF \E j \in 1..Len(RowsB) : KeyMatch(i, j) THEN 0 ELSE 1
        /\ Len(out) >= Len(RowsA)

\* C10: the RIGHT JOIN holds, for every row b of B, one joined row per row
\* of A whose key equals b's, and one row with a null-padded A side exactly
\* when b has no match; it has at least as many rows as B.
C10_RightJoinRows ==
    last.op = "RIGHT" =>
        /\ \A j \in 1..Len(RowsB) :
              /\ \A i \in 1..Len(RowsA) :
                    Count(out, PairRow(i, j)) = IF KeyMatch(i, j) THEN 1 ELSE 0
              /\ Count(out, PaddedB(j))
                    = IF \E i \in 1..Len(RowsA) : KeyMatch(i, j) THEN 0 ELSE 1
        /\ Len(out) >= Len(RowsB)

\* The hash map over the rows of one table keyed by the column col: each
\* present key value with the positions of the rows holding it, in row order.
KeyedBy(rows, col) ==
    [v \in {Get(rows[i], col) : i \in {j \in 1..Len(rows) : ~IsNullish(Get(rows[j], col))}} |->
        FilterSeq([i \in 1..Len(rows) |-> i],
                  {i \in 1..Len(rows) : Get(rows[i], col) = v})]

\* The join column of the table named alias in the ON clause of cmd.
OwnColumn(cmd, alias) ==
    IF cmd.joinKey1[1] = alias THEN cmd.joinKey1[2] ELSE cmd.joinKey2[2]

\* The hash map handleJoin builds for the statement cmd on the database d.
BuiltFor(d, cmd) ==
    HashMapOf(RowObjects(d.tables[cmd.table1]), RowObjects(d.tables[cmd.table2]),
              parseJoinKey(cmd.joinKey1, cmd.table1), parseJoinKey(cmd.joinKey2, cmd.table2))

\* C16: in every join, the hash map is built from the table with no more
\* rows than the other (A on a tie), keyed by that table's own join column.
C16_BuildSide ==
    \A joinType \in JoinTypes : \A cmd \in {JoinCmd(joinType), JoinCmdReversed(joinType)} :
        BuiltFor(db, cmd)
            = IF Len(RowsA) <= Len(RowsB) THEN KeyedBy(RowsA, OwnColumn(cmd, "A"))
              ELSE KeyedBy(RowsB, OwnColumn(cmd, "B"))

(***************************************************************************)
(* Properties of the SQL specification.                                    *)
(***************************************************************************)
\* C11: every value a stored row holds for a declared column has the
\* column's declared type.
C11_StoredValuesTyped ==
    \A name \in DOMAIN db.tables :
        LET t == db.tables[name]
        IN \A r \in Stored(t) : \A i \in 1..Len(t.columns) :
              LET val == Field(t, r, t.columns[i].name)
              IN val # Undef => TypeOf(val) = t.columns[i].type

\* The stored rows of t that t2 no longer stores or stores with other fields.
Touched(t, t2) ==
    {r \in Stored(t) : r \notin Stored(t2) \/ t2.heap[r] # t.heap[r]}

\* C14: in every reachable state, an UPDATE or DELETE statement without a
\* WHERE clause raises an error and leaves the database as it was, and the
\* rows any other UPDATE or DELETE changes or removes all satisfy the
\* condition of its WHERE clause.
C14_WhereRequired ==
    \A cmd \in UpdateCmds \cup DeleteCmds :
        \A r \in {execute(db, cmd)} :
            /\ ~cmd.matches => (r.err = "syntax" /\ r.d = db)
            /\ (cmd.matches /\ HasTable(db, cmd.table)) =>
                  \/ parseWhere(cmd.where).err # "none" /\ r.d = db
                  \/ /\ parseWhere(cmd.where).err = "none"
                     /\ \A row \in Touched(db.tables[cmd.table], r.d.tables[cmd.table]) :
                           Matches(db.tables[cmd.table], row, parseWhere(cmd.where).where)

\* C14 witness: an UPDATE or DELETE without WHERE clause has been rejected
\* on a table that holds rows.
C14_Witness ==
    /\ last.op \in {"UPDATE", "DELETE FROM"}
    /\ last.err = "syntax"
    /\ HasTable(db, SqlTable)
    /\ Len(db.tables[SqlTable].rows) >= 1

\* C15: after every execute call, the tables of the snapshot on disk
\* (name, columns, rows) are the tables in memory.
C15_SnapshotIsMemory ==
    db.order # <<>> => db.disk.tables = Snapshot(db)

\* The column lists the CREATE TABLE statements hand to createTable.
CreateColumns ==
    {ParsedColumns(cmd.colsDef) :
        cmd \in {c \in CreateCmds :
                    /\ c.matches
                    /\ \A i \in 1..Len(c.colsDef) : c.colsDef[i].type \in SupportedTypes}}

\* C18: createTable with a name that is registered fails with 'already
\* exists', whatever the columns, and leaves the tables, their order and the
\* file as they were.
C18_DuplicateNameRejected ==
    HasTable(db, SqlTable) =>
        \A columns \in CreateColumns :
            \A r \in {Database_createTable(db, SqlTable, columns)} :
                r.err = "exists" /\ r.d = db

\* A CREATE TABLE of the registered name was rejected while the table held a
\* row.
C18_Witness ==
    /\ last.op = "CREATE TABLE"
    /\ last.err = "exists"
    /\ HasTable(db, SqlTable)
    /\ Len(db.tables[SqlTable].rows) > 0

\* The primary-key columns of a column list.
PrimaryKeys(columns) == {i \in 1..Len(columns) : columns[i].isPrimaryKey}

\* C19: every registered table has at most one primary-key column, and
\* createTable with two primary-key columns fails and leaves the tables,
\* their order and the file as they were.
C19_OnePrimaryKey ==
    /\ \A name \in DOMAIN db.tables :
          Cardinality(PrimaryKeys(db.tables[name].columns)) <= 1
    /\ \A columns \in {c \in CreateColumns \cup DirectColumns :
                            Cardinality(PrimaryKeys(c)) > 1} :
          \A r \in {Database_createTable(db, SqlTable, columns)} :
              r.err # "none" /\ r.d = db

(***************************************************************************)
(* The server specification: requests with every credential of the        *)
(* bounded sets sent to the six routes, keys created and revoked directly *)
(* on the key store (as the integration test does), and the rate          *)
(* limiter's window running out.                                           *)
(***************************************************************************)
KeyIds == 1..MaxKeyId

KeyTokens == 1..MaxToken

Roles == {"admin", "user"}

NoAuthorization == [scheme |-> "none", token |-> 0]

\* The headers of a request: no header or an x-api-key header, a Bearer
\* token (possibly empty), another authorization scheme, or both headers.
Credentials ==
    {[xApiKey |-> t, authorization |-> NoAuthorization] : t \in 0..(MaxToken + 1)}
    \cup {[xApiKey |-> 0, authorization |-> [scheme |-> "Bearer", token |-> t]] : t \in 0..1}
    \cup {[xApiKey |-> 0, authorization |-> [scheme |-> "Basic", token |-> 1]],
          [xApiKey |-> MaxToken + 1, authorization |-> [scheme |-> "Bearer", token |-> 1]]}

\* The body and parameters of a request; the fields a route does not read
\* are left at these values.
NoBody ==
    [id |-> Str(1), amount |-> Num(1), merchant |-> Str(1), status |-> Success,
     timestamp |-> IsoText(1), role |-> "user", key |-> 1]

NoQuery == [status |-> Undef, from |-> Undef, to |-> Undef]

\* The bodies posted to /api/transactions: a well-formed one for each id, one
\* with a numeric text for the amount, and ones a validator refuses.
TransactionBodies ==
    {[NoBody EXCEPT !.id = x] : x \in Strs \cup {Undef, EmptyText}}
    \cup {[NoBody EXCEPT !.id = Str(MaxStr), !.amount = NumericText(1)],
          [NoBody EXCEPT !.merchant = EmptyText],
          [NoBody EXCEPT !.status = Str(1)],
          [NoBody EXCEPT !.timestamp = Str(1)]}

\* The query parameters sent to GET /api/transactions: none, a status, a
\* first date, and a first date that is no date.
TransactionQueries ==
    {NoQuery, [NoQuery EXCEPT !.status = Success], [NoQuery EXCEPT !.from = IsoText(MaxIso)],
     [NoQuery EXCEPT !.from = Str(1)]}

\* The routes with the bodies and parameters sent to them; ok is FALSE for a
\* body that is not JSON.
RouteInputs ==
    {[route |-> GetApiKeys, bodyOk |-> TRUE, body |-> NoBody, query |-> NoQuery],
     [route |-> PostTransaction, bodyOk |-> FALSE, body |-> NoBody, query |-> NoQuery],
     [route |-> PostApiKey, bodyOk |-> FALSE, body |-> NoBody, query |-> NoQuery]}
    \cup {[route |-> GetTransactions, bodyOk |-> TRUE, body |-> NoBody, query |-> q] :
              q \in TransactionQueries}
    \cup {[route |-> PostTransaction, bodyOk |-> TRUE, body |-> b, query |-> NoQuery] :
              b \in TransactionBodies}
    \cup {[route |-> DeleteTransaction, bodyOk |-> TRUE, body |-> [NoBody EXCEPT !.id = x],
           query |-> NoQuery] : x \in Strs}
    \cup {[route |-> PostApiKey, bodyOk |-> TRUE, body |-> [NoBody EXCEPT !.role = x],
           query |-> NoQuery] : x \in Roles \cup {"root"}}
    \cup {[route |-> DeleteApiKey, bodyOk |-> TRUE, body |-> [NoBody EXCEPT !.key = x],
           query |-> NoQuery] : x \in KeyIds}

Requests ==
    {[route |-> i.route, bodyOk |-> i.bodyOk, body |-> i.body, query |-> i.query,
      xApiKey |-> c.xApiKey, authorization |-> c.authorization] :
        i \in RouteInputs, c \in Credentials}

\* The random bytes a request can make the key store draw.
Draws(req) ==
    IF req.route = PostApiKey /\ req.bodyOk /\ Validates(req)
    THEN KeyIds \X KeyTokens ELSE {<<1, 1>>}

InitApi ==
    /\ tbl = Table(TableColumns)
    /\ last = [op |-> "new", err |-> "none", ret |-> 0]
    /\ mutated = FALSE
    /\ db = Database_createTable(Database, "transactions", TransactionColumns).d
    /\ out = <<>>
    /\ api = Server
    /\ tree = BTreeIndex
    /\ history = <<>>

\* A request served by the application; last holds the stage that answered
\* it and the status of the answer.
Request(req) ==
    \E draw \in Draws(req) :
      \E r \in {App(api, db, req, draw[1], draw[2])} :
        /\ Len(r.d.tables["transactions"].heap) <= MaxInserts
        /\ api' = r.api
        /\ db' = r.d
        /\ last' = [op |-> "request", err |-> r.stage, ret |-> r.status]
        /\ out' = r.out
        /\ UNCHANGED <<tbl, mutated, tree, history>>

\* apiKeyStore.create(role), called on the store itself
CreateKey(id, token, role) ==
    /\ api' = ApiKeyStore_create(api, id, token, role)
    /\ last' = [op |-> "create", err |-> "none", ret |-> 0]
    /\ out' = <<>>
    /\ UNCHANGED <<tbl, mutated, db, tree, history>>

\* apiKeyStore.revoke(id), called on the store itself
RevokeKey(id) ==
    \E r \in {ApiKeyStore_revoke(api, id)} :
        /\ api' = r.s
        /\ last' = [op |-> "revoke", err |-> "none", ret |-> IF r.ok THEN 1 ELSE 0]
        /\ out' = <<>>
        /\ UNCHANGED <<tbl, mutated, db, tree, history>>

\* The window of the rate limiter runs out.
WindowReset ==
    /\ api.hits > 0
    /\ api' = [api EXCEPT !.hits = 0]
    /\ UNCHANGED <<tbl, last, mutated, db, out, tree, history>>

NextApi ==
    \/ \E req \in Requests : Request(req)
    \/ \E id \in KeyIds, token \in KeyTokens, role \in Roles : CreateKey(id, token, role)
    \/ \E id \in KeyIds : RevokeKey(id)
    \/ WindowReset

SpecApi == InitApi /\ [][NextApi]_vars

(***************************************************************************)
(* Properties of the server specification.                                 *)
(***************************************************************************)
\* The role the key store gives the key of a request, "null" for a key that
\* does not validate.
RoleOf(req) == ApiKeyStore_validate(api, TokenOf(req))

\* The requests the claim rejects: no key, a key that does not validate, or
\* a key with the role 'user' on an admin route.
Rejected(req) ==
    \/ RoleOf(req) = "null"
    \/ req.route \in AdminRoutes /\ RoleOf(req) = "user"

\* The answer r left the transactions table, the database file and the key
\* store as they were.
Untouched(r) == r.d = db /\ r.api.keys = api.keys /\ r.api.file = api.file

\* The status the claim gives a rejected request.
RejectionStatus(req) == IF TokenOf(req) = 0 THEN 401 ELSE 403

\* The answers to every request that can be sent in the current state.
Answers(req) == {App(api, db, req, draw[1], draw[2]) : draw \in Draws(req)}

\* C20, as stated: a handler runs only for a request with a valid key; a
\* request with no key is answered 401, one with a key that does not
\* validate 403, one with a 'user' key on an admin route 403, and none of
\* them changes the transactions table or the key store.
C20_EveryRequestGated ==
    \A req \in Requests : \A r \in Answers(req) :
        /\ r.stage = "handler" => RoleOf(req) # "null"
        /\ Rejected(req) =>
              /\ r.status = RejectionStatus(req)
              /\ r.stage # "handler"
              /\ Untouched(r)

\* C20, amended: a handler runs only for a request with a valid key, and a
\* request with no key, with a key that does not validate or with a 'user'
\* key on an admin route changes neither the transactions table nor the key
\* store; it is answered 401, 403 and 403 when it reaches its route, and 500
\* or 429 when the body parser or the rate limiter refuses it first.
C20_RouteGated ==
    \A req \in Requests : \A r \in Answers(req) :
        /\ r.stage = "handler" => RoleOf(req) # "null"
        /\ Rejected(req) =>
              /\ r.stage # "handler"
              /\ Untouched(r)
              /\ r.status = IF ~req.bodyOk THEN 500
                            ELSE IF api.hits >= RateLimitMax THEN 429
                            ELSE RejectionStatus(req)

\* A request with a 'user' key was answered 403 by requireRole while the
\* transactions table held a row and another request could still be served.
C20_Witness ==
    /\ last.op = "request"
    /\ last.err = "role"
    /\ last.ret = 403
    /\ Len(db.tables["transactions"].rows) > 0
    /\ \E i \in 1..Len(api.keys) : api.keys[i].role = "user"

(***************************************************************************)
(* The key store specification: keys created and revoked on an            *)
(* ApiKeyStore.  The random bytes create draws for the id and the token   *)
(* differ from all the bytes drawn before.  history holds the keys handed *)
(* out, in order: [id, token, role, live], live until revoke(id) returned *)
(* true.                                                                   *)
(***************************************************************************)
IssuedIds == {history[i].id : i \in 1..Len(history)}

IssuedTokens == {history[i].token : i \in 1..Len(history)}

InitKeys ==
    /\ tbl = Table(TableColumns)
    /\ last = [op |-> "new", err |-> "none", ret |-> 0]
    /\ mutated = FALSE
    /\ db = Database
    /\ out = <<>>
    /\ api = Server
    /\ tree = BTreeIndex
    /\ history = <<>>

\* apiKeyStore.create(role)
KeyCreate(id, token, role) ==
    /\ id \notin IssuedIds
    /\ token \notin IssuedTokens
    /\ api' = ApiKeyStore_create(api, id, token, role)
    /\ history' = Append(history, [id |-> id, token |-> token, role |-> role, live |-> TRUE])
    /\ last' = [op |-> "create", err |-> "none", ret |-> id]
    /\ UNCHANGED <<tbl, mutated, db, out, tree>>

\* apiKeyStore.revoke(id); last.ret is 1 when it returned true
KeyRevoke(id) ==
    \E r \in {ApiKeyStore_revoke(api, id)} :
        /\ api' = r.s
        /\ history' = [i \in 1..Len(history) |->
                          IF r.ok /\ history[i].id = id
                          THEN [history[i] EXCEPT !.live = FALSE] ELSE history[i]]
        /\ last' = [op |-> "revoke", err |-> "none", ret |-> IF r.ok THEN 1 ELSE 0]
        /\ UNCHANGED <<tbl, mutated, db, out, tree>>

NextKeys ==
    \/ \E id \in KeyIds, token \in KeyTokens, role \in Roles : KeyCreate(id, token, role)
    \/ \E id \in KeyIds : KeyRevoke(id)

SpecKeys == InitKeys /\ [][NextKeys]_vars

\* C21: validate(token) returns the role given at creation exactly for the
\* keys created and not revoked, and null for the token of a key whose
\* revoke returned true, in that state and in every later one, and for a
\* token never handed out.
C21_ValidateIffStored ==
    /\ \A i \in 1..Len(history) :
          ApiKeyStore_validate(api, history[i].token)
              = IF history[i].live THEN history[i].role ELSE "null"
    /\ \A token \in (0..(MaxToken + 1)) \ IssuedTokens :
          ApiKeyStore_validate(api, token) = "null"
    /\ \A i \in 1..Len(history) :
          history[i].live <=> KeyIndex(api.keys, history[i].id) # 0

\* revoke has just returned true for one key while another key is stored.
C21_Witness ==
    /\ last.op = "revoke"
    /\ last.ret = 1
    /\ \E i, j \in 1..Len(history) : history[i].live /\ ~history[j].live

(***************************************************************************)
(* The range index specification: a BTreeIndex of order TreeOrder driven  *)
(* through insert and delete.  Every insert hands over a new row object,  *)
(* the row i being the one of the i-th insert.  history holds the calls   *)
(* made, in order: [op, key, row].                                         *)
(***************************************************************************)
TreeKeys == {Num(n) : n \in 1..MaxTreeKey}

\* The calls of this kind made so far.
Calls(op) == {i \in 1..Len(history) : history[i].op = op}

InitTree ==
    /\ tbl = Table(TableColumns)
    /\ last = [op |-> "new", err |-> "none", ret |-> 0]
    /\ mutated = FALSE
    /\ db = Database
    /\ out = <<>>
    /\ api = Server
    /\ tree = BTreeIndexOf(TreeOrder)
    /\ history = <<>>

\* index.insert(key, row) with a new row object
TreeInsert(key) ==
    /\ Cardinality(Calls("insert")) < MaxTreeInserts
    /\ \E row \in {Cardinality(Calls("insert")) + 1} :
          /\ tree' = BTree_insert(tree, key, row)
          /\ history' = Append(history, [op |-> "insert", key |-> key, row |-> row])
          /\ last' = [op |-> "insert", err |-> "none", ret |-> row]
    /\ UNCHANGED <<tbl, mutated, db, out, api>>

\* index.delete(key, row) with a row object handed over before
TreeDelete(key, row) ==
    /\ Cardinality(Calls("delete")) < MaxTreeDeletes
    /\ row \in {history[i].row : i \in Calls("insert")}
    /\ tree' = BTree_delete(tree, key, row)
    /\ history' = Append(history, [op |-> "delete", key |-> key, row |-> row])
    /\ last' = [op |-> "delete", err |-> "none", ret |-> row]
    /\ UNCHANGED <<tbl, mutated, db, out, api>>

NextTree ==
    \/ \E key \in TreeKeys : TreeInsert(key)
    \/ \E key \in TreeKeys, row \in 1..MaxTreeInserts : TreeDelete(key, row)

SpecTree == InitTree /\ [][NextTree]_vars

(***************************************************************************)
(* Properties of the range index specification.                            *)
(***************************************************************************)
\* The entries [key, list] of the subtree of a node in in-order position:
\* child 1, entry 1, child 2, ..., the last child; list is the reference of
\* the entry's row array.
RECURSIVE EntriesInOrder(_), EntriesFrom(_, _)
EntriesFrom(node, i) ==
    IF i > Len(node.keys)
    THEN IF ~node.isLeaf /\ i <= Len(node.children) THEN EntriesInOrder(node.children[i])
         ELSE <<>>
    ELSE (IF ~node.isLeaf /\ i <= Len(node.children) THEN EntriesInOrder(node.children[i])
          ELSE <<>>)
         \o <<[key |-> node.keys[i], list |-> node.values[i]]>>
         \o EntriesFrom(node, i + 1)

EntriesInOrder(node) == EntriesFrom(node, 1)

\* The rows inserted under a key and not deleted under it since.
LiveRows(key) ==
    {history[i].row : i \in {j \in Calls("insert") : history[j].key = key}}
    \ {history[i].row : i \in {j \in Calls("delete") : history[j].key = key}}

\* C22: no key value occurs more than once among the keys of the tree.
C22_KeysDistinct ==
    \A e \in {EntriesInOrder(tree.root)} :
        \A i, j \in 1..Len(e) : e[i].key = e[j].key => i = j

\* C23: search(k) returns a non-empty row list exactly when a row inserted
\* under k has not been deleted.
C23_SearchIffLive ==
    \A key \in TreeKeys : (BTree_search(tree, key) # <<>>) <=> (LiveRows(key) # {})

\* The key a row was inserted under.
KeyOfRow(row) == history[CHOOSE i \in Calls("insert") : history[i].row = row].key

\* The first position of a row in a result.
FirstPos(result, row) == CHOOSE i \in 1..Len(result) :
    result[i] = row /\ \A j \in 1..(i - 1) : result[j] # row

\* Rows of the same key come in a result in the order of their inserts: the
\* earlier row is met first.
InInsertionOrder(result) ==
    \A a, b \in SeqToSet(result) :
        (a < b /\ KeyOfRow(a) = KeyOfRow(b)) => FirstPos(result, a) < FirstPos(result, b)

\* C25: the rows inserted under the same key come in the in-order traversal
\* and in the result of every range query in the order of their inserts.
C25_EqualKeysKeepOrder ==
    /\ \A r \in {getAllSorted(tree)} : InInsertionOrder(r)
    /\ \A lo, hi \in TreeKeys : \A r \in {BTree_range(tree, lo, hi)} : InInsertionOrder(r)
    /\ \A key \in TreeKeys :
          /\ \A r \in {BTree_greaterThan(tree, key)} : InInsertionOrder(r)
          /\ \A r \in {BTree_greaterThanOrEqual(tree, key)} : InInsertionOrder(r)
          /\ \A r \in {BTree_lessThan(tree, key)} : InInsertionOrder(r)
          /\ \A r \in {BTree_lessThanOrEqual(tree, key)} : InInsertionOrder(r)

\* Every key of the subtree of a node.
SubtreeKeys(node) ==
    UNION {{e[i].key : i \in 1..Len(e)} : e \in {EntriesInOrder(node)}}

\* Every key in child i of a node is <= the node's key i, which is <= every
\* key in child i + 1; the same in every node below.
RECURSIVE Ordered(_)
Ordered(node) ==
    /\ \A i \in 1..(Len(node.keys) - 1) : JsLE(node.keys[i], node.keys[i + 1])
    /\ node.isLeaf \/
          /\ \A i \in 1..Len(node.keys) :
                /\ \A k \in SubtreeKeys(node.children[i]) : JsLE(k, node.keys[i])
                /\ \A k \in SubtreeKeys(node.children[i + 1]) : JsLE(node.keys[i], k)
          /\ \A i \in 1..Len(node.children) : Ordered(node.children[i])

\* The number of levels of the subtree of a node, by its first children.
RECURSIVE getHeight(_)
getHeight(node) == IF node.isLeaf THEN 1 ELSE 1 + getHeight(node.children[1])

\* C26: an in-order traversal of the tree yields its keys in non-decreasing
\* order, and in every node the keys of child i are <= key i <= the keys of
\* child i + 1.
C26_KeysInOrder ==
    /\ \A e \in {EntriesInOrder(tree.root)} :
          \A i \in 1..(Len(e) - 1) : JsLE(e[i].key, e[i + 1].key)
    /\ Ordered(tree.root)

\* A tree of three levels holding both key values, after a delete.
C26_Witness ==
    /\ getHeight(tree.root) = 3
    /\ SubtreeKeys(tree.root) = TreeKeys
    /\ last.op = "delete"

\* The nodes of the subtree of a node, the node included.
RECURSIVE Nodes(_)
Nodes(node) ==
    {node} \cup (IF node.isLeaf THEN {}
                 ELSE UNION {Nodes(node.children[i]) : i \in 1..Len(node.children)})

\* C27: in a tree of order m every node holds at most 2m-1 keys, every node
\* other than the root at least m-1, and every internal node has one more
\* child than it has keys.
C27_NodeSizes ==
    \A node \in Nodes(tree.root) :
        /\ Len(node.keys) <= 2 * tree.order - 1
        /\ node # tree.root => Len(node.keys) >= tree.order - 1
        /\ ~node.isLeaf => Len(node.children) = Len(node.keys) + 1
        /\ Len(node.values) = Len(node.keys)

\* A tree of three levels with a node at capacity, after a delete.
C27_Witness ==
    /\ getHeight(tree.root) = 3
    /\ \E node \in Nodes(tree.root) : Len(node.keys) = 2 * tree.order - 1
    /\ \E i \in Calls("delete") : TRUE

\* C28: whatever key is inserted next, insertNonFull is entered only on
\* nodes that hold fewer than 2m-1 keys: a full root and a full child are
\* split before the descent enters them.
C28_NeverEntersFullNode ==
    \A key \in TreeKeys :
        \A c \in {BTree_insertCall(tree, key, 0)} :
            /\ c.entered # <<>>
            /\ \A i \in 1..Len(c.entered) : c.entered[i] < 2 * tree.order - 1

\* A tree whose root was split and filled up again to 2m-2 keys, in which
\* the next insert of some key meets a full child on its way down and has to
\* split it before entering it.
C28_Witness ==
    /\ ~tree.root.isLeaf
    /\ Len(tree.root.keys) = 2 * tree.order - 2
    /\ \E key \in TreeKeys :
          IsFull(tree.root.children[DescendPos(tree.root.keys, key, Len(tree.root.keys)) + 1],
                 tree.order)
    /\ last.op = "insert"

\* The depths of the leaves below a node that is itself at depth d.
RECURSIVE LeafDepths(_, _)
LeafDepths(node, d) ==
    IF node.isLeaf THEN {d}
    ELSE UNION {LeafDepths(node.children[i], d + 1) : i \in 1..Len(node.children)}

\* C29: all leaves are at the same depth, and the height of the tree changes
\* only in a step that splits a full root: it then grows by exactly one and
\* the new root holds a single key.
C29_Balanced ==
    /\ [](Cardinality(LeafDepths(tree.root, 1)) = 1)
    /\ [][/\ getHeight(tree.root)' # getHeight(tree.root) =>
               /\ IsFull(tree.root, tree.order)
               /\ getHeight(tree.root)' = getHeight(tree.root) + 1
               /\ Len(tree.root.keys') = 1
          /\ (IsFull(tree.root, tree.order) /\ last'.op = "insert") =>
               getHeight(tree.root)' = getHeight(tree.root) + 1]_vars

\* The root of a tree of three levels holds the single key its split moved up.
C29_Witness ==
    /\ getHeight(tree.root) = 3
    /\ Len(tree.root.keys) = 1
    /\ LeafDepths(tree.root, 1) = {3}
    /\ last.op = "insert"

\* The number of times a row occurs in a row list.
Occurrences(list, row) == Cardinality({i \in 1..Len(list) : list[i] = row})

\* The number of references to a row met in the row lists of the entries e
\* of a tree with these row arrays.
RECURSIVE References(_, _, _)
References(e, lists, row) ==
    IF e = <<>> THEN 0
    ELSE Occurrences(lists[Head(e).list], row) + References(Tail(e), lists, row)

\* The row objects a caller can hold: those handed to insert so far, and one
\* that was never indexed.
TreeRows == 1..(MaxTreeInserts + 1)

\* C30: whatever delete(key, row) is called next, it removes at most one
\* reference to row from the entries of the tree and changes nothing else:
\* the nodes with their keys and shape stay, every entry keeps its references
\* to the other rows, and the entries of the other keys keep their row lists.
\* A call for a key that is not in the tree, or for a row that is not in the
\* row lists of that key, changes nothing.
C30_DeleteRemovesOneReference ==
    \A key \in TreeKeys, row \in TreeRows :
        \A t \in {BTree_delete(tree, key, row)} :
            \A e \in {EntriesInOrder(tree.root)} :
                /\ t.root = tree.root
                /\ t.order = tree.order
                /\ DOMAIN t.lists = DOMAIN tree.lists
                /\ References(e, tree.lists, row) - References(e, t.lists, row) \in {0, 1}
                /\ \A i \in 1..Len(e) :
                      /\ FilterSeq(t.lists[e[i].list], TreeRows \ {row})
                            = FilterSeq(tree.lists[e[i].list], TreeRows \ {row})
                      /\ e[i].key # key => t.lists[e[i].list] = tree.lists[e[i].list]
                /\ (\/ key \notin SubtreeKeys(tree.root)
                    \/ row \notin LiveRows(key)) => t = tree

(***************************************************************************)
(* The lookup specification: a table                                       *)
(*     (id string pk, email string unique nullable, tag string nullable)   *)
(* under insert, update and delete; select is called on it with every      *)
(* predicate over its columns.                                             *)
(***************************************************************************)
LookupColumns ==
    <<Column("id", "string", TRUE, FALSE, FALSE),
      Column("email", "string", FALSE, TRUE, TRUE),
      Column("tag", "string", FALSE, FALSE, TRUE)>>

\* Rows handed to insert: email and tag may be absent.
LookupRows == [id : Strs, email : Strs \cup {Undef}, tag : Strs \cup {Undef}]

\* Predicates handed to update and delete.
LookupWheres ==
    {<<Pair(c, x)>> : c \in {"id", "email", "tag"}, x \in Strs}

\* Change sets handed to update.
LookupUpdates == {<<Pair(c, x)>> : c \in {"email", "tag"}, x \in Strs}

\* Predicates handed to select: none, one, two or three columns in any key
\* order, each with a text or an absent value.
LookupPredicates ==
    LET vals == Strs \cup {Undef}
        cols == {"id", "email", "tag"}
    IN {<<>>}
       \cup {<<Pair(c, x)>> : c \in cols, x \in vals}
       \cup {<<Pair(c[1], x), Pair(c[2], y)>> :
                c \in {d \in cols \X cols : d[1] # d[2]}, x \in vals, y \in vals}
       \cup {<<Pair(c[1], x[1]), Pair(c[2], x[2]), Pair(c[3], x[3])>> :
                c \in {d \in cols \X cols \X cols : d[1] # d[2] /\ d[1] # d[3] /\ d[2] # d[3]},
                x \in vals \X vals \X vals}

InitLookup ==
    /\ tbl = Table(LookupColumns)
    /\ last = [op |-> "new", err |-> "none", ret |-> 0]
    /\ mutated = FALSE
    /\ db = Database
    /\ out = <<>>
    /\ api = Server
    /\ tree = BTreeIndex
    /\ history = <<>>

NextLookup ==
    \/ \E row \in LookupRows : Insert(row)
    \/ \E where \in LookupWheres, updates \in LookupUpdates : Update(where, updates)
    \/ \E where \in LookupWheres : Delete(where)

SpecLookup == InitLookup /\ [][NextLookup]_vars

\* C31: for every predicate, select returns exactly the rows of the row
\* store whose fields equal all the predicate's fields, as a linear scan of
\* the row store finds them.
C31_SelectMatchesScan ==
    \A where \in LookupPredicates :
        SeqToSet(Table_select(tbl, where)) = Matching(tbl, where)

\* How the LEFT JOIN of the statement looks for the matches of row i of A.
LeftLookupOf(i) ==
    LeftLookup(BuiltFor(db, JoinCmd("LEFT")), Get(RowsA[i], "k1"),
               IsTable1Smaller(RowsA, RowsB))

\* C32 as stated: when A, the first table, is the build side, the matches
\* of each row of A are found via the hash map, and B is scanned only when
\* A is not the build side.
C32_LeftHashOnBuildSide ==
    \A i \in 1..Len(RowsA) : \A l \in {LeftLookupOf(i)} :
        /\ Len(RowsA) <= Len(RowsB) => l = "hash"
        /\ l = "scan" => Len(RowsA) > Len(RowsB)

\* C32: in a LEFT JOIN, when A, the first table, is the build side, the
\* matches of each row of A are found by a linear scan of B; the hash map is
\* used only when B is the build side, for the rows of A whose key it holds
\* (a row with another key is not looked up and gets the padded row).
C32_LeftScanOnBuildSide ==
    \A i \in 1..Len(RowsA) : \A l \in {LeftLookupOf(i)} :
        /\ Len(RowsA) <= Len(RowsB) => l = "scan"
        /\ Len(RowsA) > Len(RowsB) =>
              l = IF \E j \in 1..Len(RowsB) : KeyMatch(i, j) THEN "hash" ELSE "none"

\* A LEFT JOIN has returned a joined pair found in the hash map built from B.
C32_Witness ==
    /\ last.op = "LEFT"
    /\ Len(RowsA) > Len(RowsB)
    /\ \E i \in 1..Len(RowsA) : \E j \in 1..Len(RowsB) :
          LeftLookupOf(i) = "hash" /\ Count(out, PairRow(i, j)) = 1

\* The rows of a join result that pair a row of A with a row of B.
MatchedRows(rows) ==
    FilterSeq(rows, {x \in SeqToSet(rows) :
        \E i \in 1..Len(RowsA) : \E j \in 1..Len(RowsB) : x = PairRow(i, j)})

\* The same rows, the same number of times each.
SameBag(rows1, rows2) ==
    \A x \in SeqToSet(rows1) \cup SeqToSet(rows2) : Count(rows1, x) = Count(rows2, x)

\* C33: on the same tables, the matched rows of the LEFT JOIN and of the
\* RIGHT JOIN are exactly the rows of the INNER JOIN.
C33_OuterMatchesAreInner ==
    \A inner \in {execute(db, JoinCmd("INNER")).out} :
        \A joinType \in {"LEFT", "RIGHT"} :
            SameBag(MatchedRows(execute(db, JoinCmd(joinType)).out), inner)

\* C34: a join returns the same rows whichever operand of ON is written
\* first.
C34_OnOperandOrder ==
    \A joinType \in JoinTypes :
        SameBag(execute(db, JoinCmd(joinType)).out,
                execute(db, JoinCmdReversed(joinType)).out)

(***************************************************************************)
(* The persistence specification: CREATE TABLE, INSERT, UPDATE and DELETE  *)
(* statements that succeed, and restarts that load the snapshot written by *)
(* save.                                                                   *)
(***************************************************************************)
\* An INSERT and an UPDATE that name a column the table does not have.
NoteCmds ==
    {[kind |-> "INSERT INTO", matches |-> TRUE, table |-> SqlTable,
      cols |-> <<"id", "amount", "note">>,
      vals |-> <<Tok("dq", 1), Tok("num", 1), Tok("num", 1)>>],
     [kind |-> "UPDATE", matches |-> TRUE, table |-> SqlTable,
      sets |-> <<[key |-> "note", lit |-> Tok("num", 1)]>>,
      where |-> Clause("id", 1, Tok("dq", 1))]}

\* A CREATE TABLE that names the column id twice, as primary key and as
\* unique column.
RepeatCmds ==
    {[kind |-> "CREATE TABLE", matches |-> TRUE, table |-> SqlTable,
      colsDef |-> <<[name |-> "id", type |-> "string", pk |-> TRUE, unique |-> FALSE],
                    [name |-> "id", type |-> "string", pk |-> FALSE, unique |-> TRUE]>>]}

\* parser.execute(cmd) for a statement that returns without an error
ExecuteOk(cmd) ==
    \E r \in {execute(db, cmd)} :
       /\ r.err = "none"
       /\ HeapSize(r.d) <= MaxInserts
       /\ db' = r.d
       /\ last' = [op |-> cmd.kind, err |-> r.err, ret |-> r.ret]
       /\ out' = <<>>
       /\ UNCHANGED <<tbl, mutated, api, tree, history>>

\* db.save() followed by db.load()
Reload ==
    /\ db' = Database_load(Database_save(db))
    /\ last' = [op |-> "reload", err |-> "none", ret |-> 0]
    /\ out' = <<>>
    /\ UNCHANGED <<tbl, mutated, api, tree, history>>

NextPersist ==
    \/ \E cmd \in CreateCmds \cup InsertCmds \cup UpdateCmds \cup DeleteCmds \cup NoteCmds
                  \cup RepeatCmds :
          ExecuteOk(cmd)
    \/ DropTable(SqlTable)
    \/ Load
    \/ Reload

SpecPersist == InitSQL /\ [][NextPersist]_vars

\* The tables of two registries have the same names in the same order, the
\* same columns and the same row objects in the same order.
SameRegistry(d1, d2) ==
    /\ d1.order = d2.order
    /\ DOMAIN d1.tables = DOMAIN d2.tables
    /\ \A name \in DOMAIN d1.tables \cap DOMAIN d2.tables :
          /\ d1.tables[name].columns = d2.tables[name].columns
          /\ RowObjects(d1.tables[name]) = RowObjects(d2.tables[name])

\* C35: load applied to the snapshot that save writes restores every table
\* with the same name, columns and rows in the same order.
C35_SaveLoadIdentity ==
    \A d \in {Database_load(Database_save(db))} : SameRegistry(db, d)

\* The values of column c held by the rows of the row store.
HeldValues(t, c) == {Field(t, r, c) : r \in Stored(t)}

\* C36: a value of the primary-key column that no row of the row store
\* holds is free, in particular after the row that held it was deleted or
\* updated to another value: insert of a well-typed row with that value
\* returns, and select on the value then returns the new row.
C36_UniqueValueFreed ==
    \A v \in Strs \ HeldValues(tbl, "id") : \A a \in Nums :
        \A r \in {Table_insert(tbl, [id |-> v, amount |-> a])} :
            /\ r.err = "none"
            /\ Len(r.t.heap) \in SeqToSet(Table_select(r.t, <<Pair("id", v)>>))

\* An insert has returned for an id that a row deleted before it held: the
\* later row is stored and select on the id returns it.
C36_Witness ==
    /\ last.op = "insert" /\ last.err = "none"
    /\ \E i, j \in 1..Len(tbl.heap) :
          /\ i < j
          /\ i \notin Stored(tbl) /\ j \in Stored(tbl)
          /\ Field(tbl, i, "id") = Field(tbl, j, "id")
          /\ j \in SeqToSet(Table_select(tbl, <<Pair("id", Field(tbl, j, "id"))>>))

(***************************************************************************)
(* The row-order specification: the table (id string pk, amount number)    *)
(* under inserts, updates and deletes with a predicate that return without *)
(* an error, with up to MaxOrderRows rows; row objects are numbered in the *)
(* order of their inserts.                                                 *)
(***************************************************************************)
OrderIds == {Str(n) : n \in 1..MaxOrderRows}

OrderRows == [id : OrderIds, amount : Nums]

\* Predicates with one field, handed to update and delete.
OrderWheres ==
    {<<Pair("id", x)>> : x \in OrderIds} \cup {<<Pair("amount", x)>> : x \in Nums}

OrderUpdates ==
    {<<Pair("id", x)>> : x \in OrderIds} \cup {<<Pair("amount", x)>> : x \in Nums}

\* table.insert(row) that returns
OrderInsert(row) ==
    \E r \in {Table_insert(tbl, row)} :
       /\ r.err = "none"
       /\ Len(r.t.heap) <= MaxOrderRows
       /\ tbl' = r.t
       /\ last' = [op |-> "insert", err |-> "none", ret |-> 0]
       /\ UNCHANGED <<mutated, db, out, api, tree, history>>

\* table.update(where, updates) that returns
OrderUpdate(where, updates) ==
    \E r \in {Table_update(tbl, where, updates)} :
       /\ r.err = "none"
       /\ tbl' = r.t
       /\ last' = [op |-> "update", err |-> "none", ret |-> r.ret]
       /\ UNCHANGED <<mutated, db, out, api, tree, history>>

\* table.delete(where) with a predicate
OrderDelete(where) ==
    \E r \in {Table_delete(tbl, where)} :
       /\ tbl' = r.t
       /\ last' = [op |-> "delete", err |-> "none", ret |-> r.ret]
       /\ UNCHANGED <<mutated, db, out, api, tree, history>>

NextOrder ==
    \/ \E row \in OrderRows : OrderInsert(row)
    \/ \E where \in OrderWheres, updates \in OrderUpdates : OrderUpdate(where, updates)
    \/ \E where \in OrderWheres : OrderDelete(where)

SpecOrder == Init /\ [][NextOrder]_vars

\* C37: select({}) returns the rows of the row store in the order in which
\* they were inserted: an earlier row object comes before a later one, and
\* every stored row is returned once.
C37_InsertionOrder ==
    \A r \in {Table_select(tbl, <<>>)} :
        /\ \A i, j \in 1..Len(r) : i < j => r[i] < r[j]
        /\ SeqToSet(r) = Stored(tbl)

\* A delete has removed the first of three rows: select({}) returns the two
\* rows left, the second before the third.
C37_Witness ==
    /\ last.op = "delete" /\ last.ret = 1
    /\ Table_select(tbl, <<>>) = <<2, 3>>
    /\ Len(tbl.heap) = 3

(***************************************************************************)
(* The index specification: the table (id string pk, amount number) under  *)
(* insert, update and delete, with indices added to it at any time by      *)
(* createIndex and createBTreeIndex.                                       *)
(***************************************************************************)
\* table.createIndex(colName)
CreateIndex(colName) ==
    \E r \in {Table_createIndex(tbl, colName)} :
       /\ tbl' = r.t
       /\ last' = [op |-> "createIndex", err |-> r.err, ret |-> 0]
       /\ out' = <<>>
       /\ UNCHANGED <<mutated, db, api, tree, history>>

\* table.createBTreeIndex(colName)
CreateBTreeIndex(colName) ==
    /\ tbl' = Table_createBTreeIndex(tbl, colName)
    /\ last' = [op |-> "createBTreeIndex", err |-> "none", ret |-> 0]
    /\ out' = <<>>
    /\ UNCHANGED <<mutated, db, api, tree, history>>

\* Change sets of the index specification: a number for the amount, or the
\* first text for the id.
IndexUpdates == {<<Pair("id", Str(1))>>} \cup {<<Pair("amount", x)>> : x \in Nums}

NextIndex ==
    \/ \E row \in InsertRows : Insert(row)
    \/ \E where \in Wheres, updates \in IndexUpdates : Update(where, updates)
    \/ \E where \in Wheres : Delete(where)
    \/ \E colName \in ColNames(tbl.columns) : CreateIndex(colName)
    \/ \E colName \in ColNames(tbl.columns) : CreateBTreeIndex(colName)

SpecIndex == Init /\ [][NextIndex]_vars


(***************************************************************************)
(* The transactions specification: requests of one admin key to the       *)
(* transaction routes, with every field of the body and every query       *)
(* parameter well-formed, missing, empty, or refused by its validator.     *)
(***************************************************************************)
AllTransactionBodies ==
    {[NoBody EXCEPT !.id = x] : x \in Strs \cup {Undef, EmptyText, Num(1)}}
    \cup {[NoBody EXCEPT !.id = x, !.amount = a] :
              x \in Strs, a \in {NumericText(n) : n \in 1..MaxNum} \cup {Str(1), Undef}}
    \cup {[NoBody EXCEPT !.merchant = x] : x \in {Undef, EmptyText, Num(1)}}
    \cup {[NoBody EXCEPT !.id = x, !.status = y] :
              x \in Strs, y \in {Pending, Failed, Str(1), EmptyText, Undef}}
    \cup {[NoBody EXCEPT !.id = x, !.timestamp = y] :
              x \in Strs, y \in {IsoText(k) : k \in 1..MaxIso} \cup {Str(1), EmptyText, Undef}}

AllTransactionQueries ==
    {[NoQuery EXCEPT !.status = x] : x \in {Undef, EmptyText, Success, Pending, Str(1)}}
    \cup {[NoQuery EXCEPT !.from = x] : x \in {IsoText(k) : k \in 1..MaxIso} \cup {Str(1), EmptyText}}
    \cup {[NoQuery EXCEPT !.to = x] : x \in {IsoText(k) : k \in 1..MaxIso} \cup {Str(1), EmptyText}}
    \cup {[status |-> Pending, from |-> IsoText(1), to |-> IsoText(1)]}

TransactionRequests ==
    {[route |-> i.route, bodyOk |-> TRUE, body |-> i.body, query |-> i.query,
      xApiKey |-> 1, authorization |-> NoAuthorization] :
        i \in {[route |-> PostTransaction, body |-> b, query |-> NoQuery] :
                   b \in AllTransactionBodies}
              \cup {[route |-> GetTransactions, body |-> NoBody, query |-> q] :
                       q \in AllTransactionQueries}
              \cup {[route |-> DeleteTransaction, body |-> [NoBody EXCEPT !.id = x],
                     query |-> NoQuery] : x \in Strs}}

NextTransactions ==
    \/ CreateKey(1, 1, "admin")
    \/ \E req \in TransactionRequests : Request(req)
    \/ WindowReset

SpecTransactions == InitApi /\ [][NextTransactions]_vars

=============================================================================
